---------------------------- MODULE Spec2Model ----------------------------
(***************************************************************************)
(* Verification model of the sv-elaborator front end:                      *)
(*   - the preprocessor of src/syntax/pp.rs (Preprocessor::all / process   *)
(*     and the directive handlers), as a state machine over the raw token  *)
(*     stacks, the macro table, the branch stack and the output deque;     *)
(*   - the rewrite pass of src/lowering/type_param_elim.rs, as a recursive *)
(*     function over the hierarchical IR, applied by an action.            *)
(***************************************************************************)
EXTENDS Integers, Sequences, FiniteSets, TLC

VARIABLES
    src,            \* the deque returned by lex(): the input of pp
    stacks,         \* Preprocessor.stacks : Vec<VecDeque<Token>>
    macros,         \* Preprocessor.macros : name -> (Span, VecDeque<Token>)
    branch_stack,   \* Preprocessor.branch_stack : Vec<(bool, bool)>
    vec,            \* the output deque built by Preprocessor::all
    diag,           \* the diagnostics handed to DiagMgr, in order
    after_newline,  \* the local of Preprocessor::process
    pc,             \* "new" | "run" | "done" | "panic" (pp), "idle" otherwise
    hsrc,           \* the hier::Source handed to type_param_elim
    hier,           \* the hier::Source as rewritten so far
    passes,         \* number of applications of type_param_elim so far
    tpc,            \* "ready" | "panic" (type_param_elim), "idle" otherwise
    psrc,           \* the token stream handed to Parser::new
    parser,         \* the Parser: its active stream (lexer), the diagnostics
                    \* printed, the lines printed by parse_module
    goal,           \* the method of Parser that is called on the input (or the
                    \* constructor of LogicVec that is called)
    args,           \* the further arguments of that call
    parsed,         \* the list parse_source has built so far
    result,         \* what the called method returned, <<>> before it returns
    rpc             \* "ready" | "done" | "err" | "panic" (parser), "idle" otherwise

ppvars  == <<src, stacks, macros, branch_stack, vec, diag, after_newline, pc>>
tpevars == <<hsrc, hier, passes, tpc>>
parvars == <<psrc, parser, goal, args, parsed, result, rpc>>
vars    == <<src, stacks, macros, branch_stack, vec, diag, after_newline, pc,
             hsrc, hier, passes, tpc, psrc, parser, goal, args, parsed, result, rpc>>

(***************************************************************************)
(* Bounds of the model.                                                    *)
(***************************************************************************)
\* longest input enumerated token by token over the whole alphabet
MaxLen == 3
\* most `elsif branches of a generated conditional chain
MaxElsif == 1
\* most `else branches of a generated conditional chain
MaxElse == 2
\* deepest stack of raw token deques (macro expansions in progress)
MaxStack == 4
\* longest generated macro body
MaxBody == 2
\* most tokens generated after a macro invocation
MaxUse == 1
\* longest item list of a generated DesignInstantiation scope
MaxItems == 4
\* deepest nesting of designs and generate blocks in a generated IR
MaxDepth == 2
\* longest item list of the innermost scope of a generated nested IR
MaxWidth == 1
\* most applications of type_param_elim to one IR
MaxPasses == 2
\* most lines of an input generated line by line
MaxLines == 3

(***************************************************************************)
(* Helpers on sequences.                                                   *)
(***************************************************************************)
RECURSIVE Concat(_)
\* concatenation of a sequence of sequences
Concat(ss) == IF ss = <<>> THEN <<>> ELSE Head(ss) \o Concat(Tail(ss))

Last(s) == s[Len(s)]
Front(s) == SubSeq(s, 1, Len(s) - 1)

(***************************************************************************)
(* Tokens.  A token is a kind, a name (identifier or directive name, ""    *)
(* otherwise) and a span.  The lexer is outside the sources modelled; its  *)
(* output is described by lexemes laid out left to right: every lexeme is  *)
(* one byte wide and is separated from its predecessor by one byte, unless *)
(* it is glued to it (an opening parenthesis written directly after a      *)
(* name, as in `define F(x)).                                              *)
(***************************************************************************)
Span(s, e) == [start |-> s, end |-> e]

Lx(k, n, g) == [kind |-> k, name |-> n, glued |-> g]

LxId(n)    == Lx("Id", n, FALSE)
LxDir(n)   == Lx("Directive", n, FALSE)
LxOther    == Lx("Other", "", FALSE)
LxNewLine  == Lx("NewLine", "", FALSE)
LxComment  == Lx("LineComment", "", FALSE)
LxParen    == Lx("OpenParen", "", FALSE)
LxParenGlued == Lx("OpenParen", "", TRUE)

\* the tokens of a sequence of lexemes, with their spans
Layout(lexs) ==
    [i \in 1..Len(lexs) |->
        LET s == IF lexs[i].glued THEN 2 * i - 1 ELSE 2 * i
        IN  [kind |-> lexs[i].kind, name |-> lexs[i].name, span |-> Span(s, s + 1)]]


(***************************************************************************)
(* The raw token stacks.                                                   *)
(***************************************************************************)
NoTok == [kind |-> "None", name |-> "", span |-> Span(0, 0)]

RECURSIVE next_raw(_)
\* Preprocessor::next_raw: the next raw token and the stacks left; emptied
\* deques are popped on the way, and None is returned on an empty stack
next_raw(st) ==
    IF st = <<>> THEN [some |-> FALSE, tok |-> NoTok, stacks |-> st]
    ELSE IF Last(st) # <<>>
         THEN [some |-> TRUE, tok |-> Head(Last(st)),
               stacks |-> [st EXCEPT ![Len(st)] = Tail(@)]]
         ELSE next_raw(Front(st))

\* Preprocessor::peek_raw: "panic" when there is no deque or the topmost
\* deque is empty (the two unwraps), the front token otherwise
peek_raw(st) ==
    IF st = <<>> \/ Last(st) = <<>>
    THEN [panic |-> TRUE, tok |-> NoTok]
    ELSE [panic |-> FALSE, tok |-> Head(Last(st))]

\* Preprocessor::pushback_raw
pushback_raw(st, tok) ==
    IF st # <<>> THEN [st EXCEPT ![Len(st)] = <<tok>> \o @]
    ELSE <<(<<tok>>)>>

\* Preprocessor::is_directive
is_directive(name) ==
    name \in {"resetall", "include", "define", "undef", "undefineall", "ifdef",
              "else", "elsif", "endif", "ifndef", "timescale", "default_nettype",
              "unconnected_drive", "nounconnected_drive", "celldefine",
              "endcelldefine", "pragma", "line", "__FILE__", "__LINE__",
              "begin_keywords", "end_keywords"}

\* the directives process answers with the "not yet supported" warning only
Unsupported ==
    {"resetall", "undef", "undefineall", "timescale", "default_nettype",
     "unconnected_drive", "nounconnected_drive", "celldefine", "endcelldefine",
     "pragma", "line", "__FILE__", "__LINE__", "begin_keywords", "end_keywords"}

\* the branching directives skip_tokens stops at
Branching == {"ifdef", "ifndef", "else", "elsif", "endif"}

IsEol(tok) == tok.kind \in {"NewLine", "LineComment"}

RECURSIVE skip_tokens(_)
\* Preprocessor::skip_tokens: the stacks after skipping to the next branching
\* directive (which is pushed back) or to the end of the input
skip_tokens(st) ==
    LET r == next_raw(st)
    IN  IF ~r.some THEN r.stacks
        ELSE IF r.tok.kind = "Directive" /\ r.tok.name \in Branching
             THEN pushback_raw(r.stacks, r.tok)
             ELSE skip_tokens(r.stacks)

RECURSIVE read_until_newline(_)
\* Preprocessor::read_until_newline: the tokens up to the next newline or
\* line comment (consumed, not returned) or the end of the input
read_until_newline(st) ==
    LET r == next_raw(st)
    IN  IF ~r.some \/ IsEol(r.tok) THEN [list |-> <<>>, stacks |-> r.stacks]
        ELSE LET rest == read_until_newline(r.stacks)
             IN  [list |-> <<r.tok>> \o rest.list, stacks |-> rest.stacks]

\* Preprocessor::expect_id: consumes one raw token, Some only for an Id
expect_id(st) ==
    LET r == next_raw(st)
    IN  [some |-> r.some /\ r.tok.kind = "Id", name |-> r.tok.name,
         span |-> r.tok.span, stacks |-> r.stacks]

(***************************************************************************)
(* Diagnostics.                                                            *)
(***************************************************************************)
Diag(sev, msg, span) == [severity |-> sev, msg |-> msg, span |-> span]

NotSupported(span) == Diag("Warning", "compiler directive not yet supported", span)

(***************************************************************************)
(* The directive handlers.  Each returns the preprocessor's fields after   *)
(* the call: st (stacks), mac (macros), bs (branch_stack), dg (diag) and   *)
(* panic (the call aborted on an unwrap).                                  *)
(***************************************************************************)
Ret(st, mac, bs, dg) == [st |-> st, mac |-> mac, bs |-> bs, dg |-> dg, panic |-> FALSE]
Abort(st, mac, bs, dg) == [st |-> st, mac |-> mac, bs |-> bs, dg |-> dg, panic |-> TRUE]

\* HashMap::insert on the macro table
MacroInsert(mac, name, span, list) ==
    [n \in DOMAIN mac \cup {name} |->
        IF n = name THEN [span |-> span, list |-> list] ELSE mac[n]]

\* Preprocessor::parse_define
parse_define(st, mac, bs, dg, span) ==
    LET id == expect_id(st)
    IN  IF ~id.some
        THEN Ret(read_until_newline(id.stacks).stacks, mac, bs,
                 Append(dg, Diag("Error", "expected identifier name after define", span)))
        ELSE IF is_directive(id.name)
        THEN Ret(read_until_newline(id.stacks).stacks, mac, bs,
                 Append(dg, Diag("Error", "directive name cannot be used as macro names", id.span)))
        ELSE LET pk == peek_raw(id.stacks)
             IN  IF pk.panic THEN Abort(id.stacks, mac, bs, dg)
                 ELSE IF pk.tok.kind = "OpenParen" /\ pk.tok.span.start = id.span.end
                 THEN Ret(next_raw(id.stacks).stacks, mac, bs,
                          Append(dg, Diag("Warning", "function-like macros not yet supported", id.span)))
                 ELSE LET rd == read_until_newline(id.stacks)
                      IN  Ret(rd.stacks, MacroInsert(mac, id.name, id.span, rd.list), bs,
                              IF id.name \in DOMAIN mac
                              THEN dg \o <<Diag("Error", "duplicate macro definitions", id.span),
                                           Diag("Remark", "previous declared here", mac[id.name].span)>>
                              ELSE dg)

\* the tail shared by parse_ifdef and parse_elsif: read the macro name, push
\* the frame, skip when the branch is not taken
CondTail(st, mac, bs, dg, span, cond) ==
    LET id == expect_id(st)
        name == IF id.some THEN id.name ELSE ""
        dg2 == IF id.some THEN dg
               ELSE Append(dg, Diag("Error", "expected identifier name after ifdef or ifndef", span))
        taken == ((name \in DOMAIN mac) = cond)
    IN  Ret(IF taken THEN id.stacks ELSE skip_tokens(id.stacks), mac,
            Append(bs, <<taken, FALSE>>), dg2)

\* wrong on purpose: a conditional nested in a branch not taken is skipped
\* without a frame of its own
parse_ifdef_NoNestedFrame(st, mac, bs, dg, span, cond) ==
    IF bs # <<>> /\ Last(bs)[1] = FALSE
    THEN Ret(skip_tokens(st), mac, bs, dg)
    ELSE CondTail(st, mac, bs, dg, span, cond)

\* Preprocessor::parse_ifdef
parse_ifdef(st, mac, bs, dg, span, cond) ==
    IF bs # <<>> /\ Last(bs)[1] = FALSE
    THEN Ret(skip_tokens(st), mac, Append(bs, <<FALSE, FALSE>>), dg)
    ELSE CondTail(st, mac, bs, dg, span, cond)

\* Preprocessor::parse_elsif
parse_elsif(st, mac, bs, dg, span) ==
    IF bs = <<>>
    THEN Ret(st, mac, bs, Append(dg, Diag("Error", "elsif without matching ifdef or ifndef", span)))
    ELSE IF Last(bs)[2]
    THEN Ret(skip_tokens(st), mac, bs, Append(dg, Diag("Error", "elsif after an else", span)))
    ELSE IF Last(bs)[1]
    THEN Ret(skip_tokens(st), mac, bs, dg)
    ELSE LET bs1 == Front(bs)
         IN  IF bs1 # <<>> /\ Last(bs1)[1] = FALSE
             THEN Ret(skip_tokens(st), mac, Append(bs1, <<FALSE, FALSE>>), dg)
             ELSE CondTail(st, mac, bs1, dg, span, TRUE)

\* wrong on purpose: an `else takes its branch although an earlier branch of
\* the chain was taken
parse_else_Retake(st, mac, bs, dg, span) ==
    IF bs = <<>>
    THEN Ret(st, mac, bs, Append(dg, Diag("Error", "else without matching ifdef or ifndef", span)))
    ELSE IF Last(bs)[2]
    THEN Ret(skip_tokens(st), mac, bs, Append(dg, Diag("Error", "else after an else", span)))
    ELSE LET bs1 == Front(bs)
         IN  IF bs1 # <<>> /\ Last(bs1)[1] = FALSE
             THEN Ret(skip_tokens(st), mac, Append(bs1, <<FALSE, TRUE>>), dg)
             ELSE Ret(st, mac, Append(bs1, <<TRUE, TRUE>>), dg)

\* Preprocessor::parse_else
parse_else(st, mac, bs, dg, span) ==
    IF bs = <<>>
    THEN Ret(st, mac, bs, Append(dg, Diag("Error", "else without matching ifdef or ifndef", span)))
    ELSE IF Last(bs)[2]
    THEN Ret(skip_tokens(st), mac, bs, Append(dg, Diag("Error", "else after an else", span)))
    ELSE IF Last(bs)[1]
    THEN Ret(skip_tokens(st), mac, bs, dg)
    ELSE LET bs1 == Front(bs)
         IN  IF bs1 # <<>> /\ Last(bs1)[1] = FALSE
             THEN Ret(skip_tokens(st), mac, Append(bs1, <<FALSE, TRUE>>), dg)
             ELSE Ret(st, mac, Append(bs1, <<TRUE, TRUE>>), dg)

\* wrong on purpose: an unmatched `endif also skips to the next branching
\* directive
parse_endif_SkipUnmatched(st, mac, bs, dg, span) ==
    IF bs = <<>>
    THEN Ret(skip_tokens(st), mac, bs,
             Append(dg, Diag("Error", "endif without matching ifdef or ifndef", span)))
    ELSE LET bs1 == Front(bs)
         IN  IF bs1 # <<>> /\ Last(bs1)[1] = FALSE
             THEN Ret(skip_tokens(st), mac, bs1, dg)
             ELSE Ret(st, mac, bs1, dg)

\* Preprocessor::parse_endif
parse_endif(st, mac, bs, dg, span) ==
    IF bs = <<>>
    THEN Ret(st, mac, bs, Append(dg, Diag("Error", "endif without matching ifdef or ifndef", span)))
    ELSE LET bs1 == Front(bs)
         IN  IF bs1 # <<>> /\ Last(bs1)[1] = FALSE
             THEN Ret(skip_tokens(st), mac, bs1, dg)
             ELSE Ret(st, mac, bs1, dg)

\* wrong on purpose: the cloned tokens keep the spans of the definition
Expansion_KeepSpans(list, span) == list

\* the macro invocation arm of process: the stored list, every span replaced
\* by the span of the invocation
Expansion(list, span) == [i \in 1..Len(list) |-> [list[i] EXCEPT !.span = span]]

(***************************************************************************)
(* The inputs of pp.                                                       *)
(***************************************************************************)
\* the lexemes of the inputs enumerated token by token
Alphabet ==
    {LxId("A"), LxId("define"), LxOther, LxNewLine, LxComment, LxParen, LxParenGlued,
     LxDir("define"), LxDir("ifdef"), LxDir("ifndef"), LxDir("else"), LxDir("elsif"),
     LxDir("endif"), LxDir("include"), LxDir("undef"), LxDir("A")}

\* the inputs enumerated token by token
FlatInput(s) ==
    \E k \in 0..MaxLen : \E l \in [1..k -> Alphabet] : s = Layout(l)

\* the macro names the generated conditional chains test
Names == {"A", "B"}

DefineLine(n) == <<LxDir("define"), LxId(n), LxNewLine>>

\* `define lines binding the names of D
Prelude(D) ==
    (IF "A" \in D THEN DefineLine("A") ELSE <<>>) \o
    (IF "B" \in D THEN DefineLine("B") ELSE <<>>)

\* a nested conditional followed by a token
NestedBody == <<LxDir("ifdef"), LxId("B"), LxOther, LxDir("endif"), LxOther>>

\* the branch bodies of the generated chains: a token; a token and a `define;
\* a nested conditional followed by a token
Bodies == {<<LxOther>>, <<LxOther>> \o DefineLine("C"), NestedBody}

\* the bodies of the generated `else branches
ElseBodies == {<<LxOther>>, NestedBody}

ElsifPart(e) == <<LxDir("elsif"), LxId(e[1])>> \o e[2]
ElsePart(b) == <<LxDir("else")>> \o b

\* `ifdef/`ifndef A b0 {`elsif n b} {`else b} `endif, then one more token
Chain(head, b0, elsifs, elses) ==
    <<LxDir(head), LxId("A")>> \o b0
    \o Concat([i \in 1..Len(elsifs) |-> ElsifPart(elsifs[i])])
    \o Concat([i \in 1..Len(elses) |-> ElsePart(elses[i])])
    \o <<LxDir("endif"), LxOther>>

\* the generated conditional chains, after `define lines for some of Names
ChainInput(s) ==
    \E D \in SUBSET Names, head \in {"ifdef", "ifndef"}, b0 \in Bodies :
      \E ne \in 0..MaxElsif, nl \in 0..MaxElse :
        \E elsifs \in [1..ne -> Names \X Bodies], elses \in [1..nl -> ElseBodies] :
            s = Layout(Prelude(D) \o Chain(head, b0, elsifs, elses))

\* the lexemes of the generated macro bodies
BodyAlphabet ==
    {LxOther, LxId("B"), LxDir("A"), LxDir("B"), LxDir("define"),
     LxDir("ifdef"), LxDir("endif")}

\* the lexemes that follow the invocation in the generated macro inputs
UseAlphabet == {LxOther, LxNewLine, LxDir("A"), LxDir("B"), LxDir("endif")}

\* `define A <body>, then an invocation of A and what follows it
MacroInput(s) ==
    \E nb \in 0..MaxBody, nu \in 0..MaxUse :
      \E body \in [1..nb -> BodyAlphabet], use \in [1..nu -> UseAlphabet] :
        s = Layout(<<LxDir("define"), LxId("A")>> \o body \o <<LxNewLine, LxDir("A")>> \o use)

PPInput(s) == FlatInput(s) \/ ChainInput(s) \/ MacroInput(s)

(***************************************************************************)
(* The preprocessor as a state machine: one step per iteration of the loop *)
(* of Preprocessor::process, together with what Preprocessor::all does     *)
(* with a returned token.                                                  *)
(***************************************************************************)
TpeIdle == hsrc = <<>> /\ hier = <<>> /\ passes = 0 /\ tpc = "idle"

\* a Parser: the active token stream, the diagnostics printed so far, the
\* lines printed by parse_module, and whether an unreachable!() was reached
NewParser(stream) == [lexer |-> stream, diag |-> <<>>, out |-> <<>>, panic |-> FALSE]

ParIdle ==
    /\ psrc = <<>> /\ parser = NewParser(<<>>) /\ goal = "none" /\ args = <<>>
    /\ parsed = <<>> /\ result = <<>> /\ rpc = "idle"

\* Preprocessor::new, for an input not yet lexed
InitPP ==
    /\ PPInput(src)
    /\ stacks = <<>>
    /\ macros = <<>>
    /\ branch_stack = <<>>
    /\ vec = <<>>
    /\ diag = <<>>
    /\ after_newline = FALSE
    /\ pc = "new"
    /\ TpeIdle
    /\ ParIdle

\* Preprocessor::all, first statement: push the lexed deque
Lex ==
    /\ pc = "new"
    /\ stacks' = <<src>>
    /\ pc' = "run"
    /\ UNCHANGED <<src, macros, branch_stack, vec, diag, after_newline>>
    /\ UNCHANGED <<tpevars, parvars>>

Raw == next_raw(stacks)

IsDir(name) == pc = "run" /\ Raw.some /\ Raw.tok.kind = "Directive" /\ Raw.tok.name = name

\* the state after a directive handler returned h
Handled(h) ==
    /\ stacks' = h.st
    /\ macros' = h.mac
    /\ branch_stack' = h.bs
    /\ diag' = h.dg
    /\ pc' = IF h.panic THEN "panic" ELSE "run"
    /\ after_newline' = FALSE
    /\ UNCHANGED <<src, vec>>
    /\ UNCHANGED <<tpevars, parvars>>

\* process returns None: all leaves its loop and returns vec
ProcEof ==
    /\ pc = "run" /\ ~Raw.some
    /\ stacks' = Raw.stacks
    /\ pc' = "done"
    /\ UNCHANGED <<src, macros, branch_stack, vec, diag, after_newline>>
    /\ UNCHANGED <<tpevars, parvars>>

\* a NewLine or LineComment: set after_newline and continue
ProcNewLine ==
    /\ pc = "run" /\ Raw.some /\ IsEol(Raw.tok)
    /\ stacks' = Raw.stacks
    /\ after_newline' = TRUE
    /\ UNCHANGED <<src, macros, branch_stack, vec, diag, pc>>
    /\ UNCHANGED <<tpevars, parvars>>

\* the match of Preprocessor::all on a token process returned
AllKeeps(tok) == tok.kind \notin {"NewLine", "LineComment"}

\* wrong on purpose: all pushes to the front of vec
ProcToken_PushFront ==
    /\ pc = "run" /\ Raw.some /\ ~IsEol(Raw.tok) /\ Raw.tok.kind # "Directive"
    /\ stacks' = Raw.stacks
    /\ vec' = IF AllKeeps(Raw.tok) THEN <<Raw.tok>> \o vec ELSE vec
    /\ after_newline' = FALSE
    /\ UNCHANGED <<src, macros, branch_stack, diag, pc>>
    /\ UNCHANGED <<tpevars, parvars>>

\* any other token that is no directive: process returns it, all appends it
\* and calls process again (after_newline starts as false)
ProcToken ==
    /\ pc = "run" /\ Raw.some /\ ~IsEol(Raw.tok) /\ Raw.tok.kind # "Directive"
    /\ stacks' = Raw.stacks
    /\ vec' = IF AllKeeps(Raw.tok) THEN Append(vec, Raw.tok) ELSE vec
    /\ after_newline' = FALSE
    /\ UNCHANGED <<src, macros, branch_stack, diag, pc>>
    /\ UNCHANGED <<tpevars, parvars>>

\* wrong on purpose: a directive that is not supported is returned as a token
ProcUnsupported_PassThrough ==
    /\ pc = "run" /\ Raw.some /\ Raw.tok.kind = "Directive" /\ Raw.tok.name \in Unsupported
    /\ stacks' = Raw.stacks
    /\ vec' = Append(vec, Raw.tok)
    /\ diag' = Append(diag, NotSupported(Raw.tok.span))
    /\ after_newline' = FALSE
    /\ UNCHANGED <<src, macros, branch_stack, pc>>
    /\ UNCHANGED <<tpevars, parvars>>

ProcUnsupported ==
    /\ pc = "run" /\ Raw.some /\ Raw.tok.kind = "Directive" /\ Raw.tok.name \in Unsupported
    /\ Handled(Ret(Raw.stacks, macros, branch_stack, Append(diag, NotSupported(Raw.tok.span))))

ProcInclude ==
    /\ IsDir("include")
    /\ Handled(Ret(Raw.stacks, macros, branch_stack,
                   (IF after_newline THEN diag
                    ELSE Append(diag, Diag("Error", "include must be on its own line", Raw.tok.span)))
                   \o <<NotSupported(Raw.tok.span)>>))

ProcDefine ==
    /\ IsDir("define")
    /\ Handled(parse_define(Raw.stacks, macros, branch_stack, diag, Raw.tok.span))

ProcIfdef ==
    /\ IsDir("ifdef")
    /\ Handled(parse_ifdef(Raw.stacks, macros, branch_stack, diag, Raw.tok.span, TRUE))

ProcIfndef ==
    /\ IsDir("ifndef")
    /\ Handled(parse_ifdef(Raw.stacks, macros, branch_stack, diag, Raw.tok.span, FALSE))

ProcElse ==
    /\ IsDir("else")
    /\ Handled(parse_else(Raw.stacks, macros, branch_stack, diag, Raw.tok.span))

ProcElsif ==
    /\ IsDir("elsif")
    /\ Handled(parse_elsif(Raw.stacks, macros, branch_stack, diag, Raw.tok.span))

ProcEndif ==
    /\ IsDir("endif")
    /\ Handled(parse_endif(Raw.stacks, macros, branch_stack, diag, Raw.tok.span))

\* a directive that is no built-in and names no macro
ProcMacroUnknown ==
    /\ pc = "run" /\ Raw.some /\ Raw.tok.kind = "Directive"
    /\ ~is_directive(Raw.tok.name) /\ Raw.tok.name \notin DOMAIN macros
    /\ Handled(Ret(Raw.stacks, macros, branch_stack,
                   Append(diag, Diag("Error", "cannot find macro", Raw.tok.span))))

\* a macro invocation: push the stored list with the spans replaced
ProcMacroExpand ==
    /\ pc = "run" /\ Raw.some /\ Raw.tok.kind = "Directive"
    /\ ~is_directive(Raw.tok.name) /\ Raw.tok.name \in DOMAIN macros
    /\ Len(Raw.stacks) < MaxStack
    /\ Handled(Ret(Append(Raw.stacks, Expansion(macros[Raw.tok.name].list, Raw.tok.span)),
                   macros, branch_stack, diag))

NextPP ==
    \/ Lex
    \/ ProcEof
    \/ ProcNewLine
    \/ ProcToken
    \/ ProcUnsupported
    \/ ProcInclude
    \/ ProcDefine
    \/ ProcIfdef
    \/ ProcIfndef
    \/ ProcElse
    \/ ProcElsif
    \/ ProcEndif
    \/ ProcMacroUnknown
    \/ ProcMacroExpand

SpecPP == InitPP /\ [][NextPP]_vars

(***************************************************************************)
(* Inputs generated line by line: definitions of object-like macros (one   *)
(* of them invoking another macro, one invoking itself), a function-like   *)
(* definition, invocations, `include at and off the start of a line, and   *)
(* the conditional directives.                                             *)
(***************************************************************************)
LineSet ==
    {<<LxDir("define"), LxId("B"), LxOther, LxNewLine>>,
     <<LxDir("define"), LxId("A"), LxDir("B"), LxOther, LxNewLine>>,
     <<LxDir("define"), LxId("A"), LxDir("A"), LxNewLine>>,
     <<LxDir("define"), LxId("A"), LxParenGlued, LxOther, LxNewLine>>,
     <<LxDir("define"), LxId("A"), LxParen, LxOther, LxNewLine>>,
     <<LxDir("include"), LxNewLine>>,
     <<LxOther, LxDir("include"), LxNewLine>>,
     <<LxDir("A"), LxOther, LxNewLine>>,
     <<LxDir("ifndef"), LxId("B"), LxDir("define"), LxId("A"), LxOther, LxNewLine>>,
     <<LxDir("ifdef"), LxId("A"), LxNewLine>>,
     <<LxDir("ifndef"), LxId("A"), LxNewLine>>,
     <<LxDir("elsif"), LxId("B"), LxNewLine>>,
     <<LxDir("else"), LxNewLine>>,
     <<LxDir("endif"), LxNewLine>>,
     <<LxDir("undef"), LxId("A"), LxNewLine>>}

\* the inputs of at most MaxLines lines of LineSet
LineInput(s) ==
    \E k \in 0..MaxLines : \E l \in [1..k -> LineSet] : s = Layout(Concat(l))

\* Preprocessor::new, for an input generated line by line
InitLines ==
    /\ LineInput(src)
    /\ stacks = <<>>
    /\ macros = <<>>
    /\ branch_stack = <<>>
    /\ vec = <<>>
    /\ diag = <<>>
    /\ after_newline = FALSE
    /\ pc = "new"
    /\ TpeIdle
    /\ ParIdle

SpecLines == InitLines /\ [][NextPP]_vars

(***************************************************************************)
(* The hierarchical IR.  A HierItem is a record: kind, name, ty (the       *)
(* declared type of a Param, the aliased type of a Type), init (the        *)
(* initializer of a Param: a Val) and insts (the DesignInstantiations of a *)
(* Design, the GenBlock of a GenBlock, the generated GenBlocks of a        *)
(* LoopGenBlock).  Each element of insts stands for an Rc: shared says     *)
(* that another owning reference to it exists, items is its scope.items.   *)
(***************************************************************************)
NoVal == [tag |-> "None", ty |-> "None"]
ValType(t) == [tag |-> "Type", ty |-> t]
ValInt == [tag |-> "Int", ty |-> "None"]

Item(k, n, t, v, is) == [kind |-> k, name |-> n, ty |-> t, init |-> v, insts |-> is]

Rc(sh, items) == [shared |-> sh, items |-> items]

\* wrong on purpose: the typedef aliases the declared type of the parameter
Typedef_DeclaredTy(decl) ==
    Item("Type", decl.name, decl.ty, NoVal, <<>>)

\* what TypeParamEliminator::visit_instantiation pushes for a type parameter
Typedef(decl) ==
    Item("Type", decl.name, decl.init.ty, NoVal, <<>>)

RECURSIVE visit_item(_), visit_items(_), visit_rcs(_, _), visit_instantiation(_), partition(_, _)

\* the loop `for item in &mut ...items { self.visit_item(item) }`:
\* the items after the visits, or panic
visit_items(items) ==
    IF items = <<>> THEN [panic |-> FALSE, val |-> <<>>]
    ELSE LET h == visit_item(Head(items))
         IN  IF h.panic THEN [panic |-> TRUE, val |-> items]
             ELSE LET t == visit_items(Tail(items))
                  IN  IF t.panic THEN [panic |-> TRUE, val |-> items]
                      ELSE [panic |-> FALSE, val |-> <<h.val>> \o t.val]

\* wrong on purpose: the Rcs are entered without the test of Rc::get_mut
visit_rcs_NoUnwrap(rcs, design) ==
    IF rcs = <<>> THEN [panic |-> FALSE, val |-> <<>>]
    ELSE LET h == IF design THEN visit_instantiation(Head(rcs).items)
                  ELSE visit_items(Head(rcs).items)
         IN  IF h.panic THEN [panic |-> TRUE, val |-> rcs]
             ELSE LET t == visit_rcs(Tail(rcs), design)
                  IN  IF t.panic THEN [panic |-> TRUE, val |-> rcs]
                      ELSE [panic |-> FALSE, val |-> <<Rc(FALSE, h.val)>> \o t.val]

\* the loop over the Rcs of an item: Rc::get_mut(..).unwrap() on each, then
\* visit_instantiation (design = TRUE) or the visit of the scope's items
visit_rcs(rcs, design) ==
    IF rcs = <<>> THEN [panic |-> FALSE, val |-> <<>>]
    ELSE IF Head(rcs).shared THEN [panic |-> TRUE, val |-> rcs]
    ELSE LET h == IF design THEN visit_instantiation(Head(rcs).items)
                  ELSE visit_items(Head(rcs).items)
         IN  IF h.panic THEN [panic |-> TRUE, val |-> rcs]
             ELSE LET t == visit_rcs(Tail(rcs), design)
                  IN  IF t.panic THEN [panic |-> TRUE, val |-> rcs]
                      ELSE [panic |-> FALSE, val |-> <<Rc(FALSE, h.val)>> \o t.val]

\* TypeParamEliminator::visit_item
visit_item(item) ==
    IF item.kind \in {"Design", "GenBlock", "LoopGenBlock"}
    THEN LET r == visit_rcs(item.insts, item.kind = "Design")
         IN  [panic |-> r.panic, val |-> [item EXCEPT !.insts = r.val]]
    ELSE [panic |-> FALSE, val |-> item]

\* the loop of visit_instantiation over the items left, with the four
\* vectors filled so far
partition(items, acc) ==
    IF items = <<>> THEN acc
    ELSE LET item == Head(items)
         IN  IF item.kind = "Param"
             THEN IF item.ty = "Type"
                  THEN IF item.init.tag = "Type"
                       THEN partition(Tail(items),
                                [acc EXCEPT !.type_params = Append(@, Typedef(item))])
                       ELSE [acc EXCEPT !.panic = TRUE]
                  ELSE partition(Tail(items), [acc EXCEPT !.params = Append(@, item)])
             ELSE IF item.kind \in {"DataPort", "InterfacePort"}
             THEN partition(Tail(items), [acc EXCEPT !.ports = Append(@, item)])
             ELSE LET v == visit_item(item)
                  IN  IF v.panic THEN [acc EXCEPT !.panic = TRUE]
                      ELSE partition(Tail(items), [acc EXCEPT !.others = Append(@, v.val)])

\* wrong on purpose: the ports are put before the parameters
Joined_PortsFirst(acc) == acc.ports \o acc.params \o acc.type_params \o acc.others

\* wrong on purpose: the new typedefs are put first
Joined_TypesFirst(acc) == acc.type_params \o acc.params \o acc.ports \o acc.others

\* the order in which visit_instantiation joins the four vectors
Joined(acc) == acc.params \o acc.ports \o acc.type_params \o acc.others

\* TypeParamEliminator::visit_instantiation, on the scope's items
visit_instantiation(items) ==
    LET acc == partition(items, [params |-> <<>>, type_params |-> <<>>, ports |-> <<>>,
                                 others |-> <<>>, panic |-> FALSE])
    IN  [panic |-> acc.panic, val |-> IF acc.panic THEN items ELSE Joined(acc)]

RECURSIVE visit(_)
\* TypeParamEliminator::visit, on source.units (each unit is its items)
visit(units) ==
    IF units = <<>> THEN [panic |-> FALSE, val |-> <<>>]
    ELSE LET h == visit_items(Head(units))
         IN  IF h.panic THEN [panic |-> TRUE, val |-> units]
             ELSE LET t == visit(Tail(units))
                  IN  IF t.panic THEN [panic |-> TRUE, val |-> units]
                      ELSE [panic |-> FALSE, val |-> <<h.val>> \o t.val]

\* type_param_elim
type_param_elim(source) == visit(source)

(***************************************************************************)
(* The IRs handed to type_param_elim.  The elaborator that builds them is  *)
(* outside the sources modelled: every item list the types allow is taken. *)
(* Items are named by their position in their scope.                       *)
(***************************************************************************)
\* the items that hold no scope, by shape: type parameters (PT, PT2), a type
\* parameter whose initializer is no type value (PTbad), a value parameter
\* (PV), ports (DP, IP), a typedef (TY), any other item (OT)
LeafItem(shape, n) ==
    CASE shape = "PT"    -> Item("Param", n, "Type", ValType("logic"), <<>>)
      [] shape = "PT2"   -> Item("Param", n, "Type", ValType("int"), <<>>)
      [] shape = "PTbad" -> Item("Param", n, "Type", ValInt, <<>>)
      [] shape = "PV"    -> Item("Param", n, "int", ValInt, <<>>)
      [] shape = "DP"    -> Item("DataPort", n, "None", NoVal, <<>>)
      [] shape = "IP"    -> Item("InterfacePort", n, "None", NoVal, <<>>)
      [] shape = "TY"    -> Item("Type", n, "bit", NoVal, <<>>)
      [] shape = "OT"    -> Item("Other", n, "None", NoVal, <<>>)

LeafShapes == {"PT", "PT2", "PTbad", "PV", "DP", "IP", "TY", "OT"}
NestShapes == {"PT", "DP", "OT"}
InnerShapes == NestShapes \cup {"PTbad"}
WrapKinds == {"Design", "GenBlock", "LoopGenBlock"}

MkScope(shapes) == [i \in 1..Len(shapes) |-> LeafItem(shapes[i], i)]

\* the second instance of every generated Design and LoopGenBlock
SecondInst == MkScope(<<"OT", "PT", "DP">>)

\* an item of kind k holding the scope inner
Wrapper(k, n, sh, inner) ==
    Item(k, n, "None", NoVal,
         IF k = "GenBlock" THEN <<Rc(sh, inner)>>
         ELSE <<Rc(sh, inner), Rc(FALSE, SecondInst)>>)

RECURSIVE Nest(_, _, _, _)
\* the scope that holds leaf under the wrappers ws (outermost first); a
\* wrapper is followed in its scope by the sibling sibs names, if any; the
\* innermost wrapper's Rc is shared iff sh
Nest(ws, sibs, leaf, sh) ==
    IF ws = <<>> THEN leaf
    ELSE <<Wrapper(Head(ws), 1, sh /\ Len(ws) = 1, Nest(Tail(ws), Tail(sibs), leaf, sh))>>
         \o (IF Head(sibs) = "none" THEN <<>> ELSE <<LeafItem(Head(sibs), 2)>>)

\* one unit whose items hold a scope of plain items under up to MaxDepth
\* wrappers
NestedIR(h) ==
    \E d \in 0..MaxDepth, w \in 0..MaxWidth, sh \in BOOLEAN :
      \E ws \in [1..d -> WrapKinds], sibs \in [1..d -> NestShapes \cup {"none"}],
         leaf \in [1..w -> InnerShapes] :
        h = <<Nest(ws, sibs, MkScope(leaf), sh)>>

\* two units: a Design with one instantiation of any items, and a unit of
\* plain items
FlatIR(h) ==
    \E n \in 0..MaxItems : \E shapes \in [1..n -> LeafShapes] :
        h = <<(<<Wrapper("Design", 1, FALSE, MkScope(shapes))>>), MkScope(<<"PV", "OT">>)>>

IR(h) == FlatIR(h) \/ NestedIR(h)

(***************************************************************************)
(* The rewrite pass as a state machine: each step is one call of           *)
(* type_param_elim on the IR as it stands.                                 *)
(***************************************************************************)
PPIdle ==
    /\ src = <<>> /\ stacks = <<>> /\ macros = <<>> /\ branch_stack = <<>>
    /\ vec = <<>> /\ diag = <<>> /\ after_newline = FALSE /\ pc = "idle"

InitTPE ==
    /\ IR(hsrc)
    /\ hier = hsrc
    /\ passes = 0
    /\ tpc = "ready"
    /\ PPIdle
    /\ ParIdle

\* one call type_param_elim(&mut source)
TypeParamElim ==
    /\ tpc = "ready" /\ passes < MaxPasses
    /\ LET r == type_param_elim(hier)
       IN  /\ hier' = IF r.panic THEN hier ELSE r.val
           /\ tpc' = IF r.panic THEN "panic" ELSE "ready"
    /\ passes' = passes + 1
    /\ UNCHANGED <<hsrc>>
    /\ UNCHANGED <<ppvars, parvars>>

NextTPE == TypeParamElim

SpecTPE == InitTPE /\ [][NextTPE]_vars

(***************************************************************************)
(* The parser of src/parser/mod.rs.  A token is a kind, a value (the name  *)
(* of an identifier, keyword, operator or delimiter, "" otherwise), a span *)
(* and, for a delimited group, the tokens between its delimiters.  A span  *)
(* is the path of the token: its position in the stream, below the path of *)
(* the group that holds it.  A stream is the sequence of the tokens still  *)
(* to come; past its end it yields Eof for ever.                           *)
(*                                                                         *)
(* Every method is an operator from the Parser before the call to a record *)
(* of its outcome: ok (it returned Ok), val (the value returned; an Option *)
(* is <<>> or <<v>>) and p (the Parser after the call).  The "?" of the    *)
(* source is the test of ok that follows each call.                        *)
(***************************************************************************)
Tk(k, v, toks) == [kind |-> k, val |-> v, span |-> <<>>, tokens |-> toks]

TkId(n)    == Tk("Id", n, <<>>)
TkKw(n)    == Tk("Keyword", n, <<>>)
TkOp(n)    == Tk("Operator", n, <<>>)
TkLit      == Tk("IntegerLiteral", "", <<>>)
TkGroup(d, toks) == Tk("DelimGroup", d, toks)

\* the token past the end of a stream
EofTok == Tk("Eof", "", <<>>)

\* the placeholder token of the error recoveries
UnknownTok(span) == [kind |-> "Unknown", val |-> "", span |-> span, tokens |-> <<>>]

RECURSIVE Place(_, _)
\* the tokens of a stream written below the path prefix, with their spans
Place(toks, prefix) ==
    [i \in 1..Len(toks) |->
        [toks[i] EXCEPT !.span = Append(prefix, i),
                        !.tokens = Place(toks[i].tokens, Append(prefix, i))]]

Ok(v, p) == [ok |-> TRUE, val |-> v, p |-> p]
Err(p) == [ok |-> FALSE, val |-> <<>>, p |-> p]

\* unreachable!(): the call panics
Unreachable(p) == Err([p EXCEPT !.panic = TRUE])

\* Parser::peek
peek(p) == IF p.lexer = <<>> THEN EofTok ELSE Head(p.lexer)

\* Parser::peek_n
peek_n(p, n) == IF n < Len(p.lexer) THEN p.lexer[n + 1] ELSE EofTok

\* Parser::consume: the token is val
consume(p) ==
    Ok(peek(p), [p EXCEPT !.lexer = IF @ = <<>> THEN @ ELSE Tail(@)])

\* Parser::pushback (an Eof pushed back joins the Eof tail of the stream)
pushback(p, tok) ==
    IF tok.kind = "Eof" /\ p.lexer = <<>> THEN p
    ELSE [p EXCEPT !.lexer = <<tok>> \o @]

report_diag_ErrorAborts(p, d) ==
    [ok |-> d.severity \notin {"Error", "Fatal"}, val |-> <<>>,
     p |-> [p EXCEPT !.diag = Append(@, d)]]

\* Parser::report_diag: print the diagnostic, Err exactly for Fatal
report_diag(p, d) ==
    [ok |-> d.severity # "Fatal", val |-> <<>>, p |-> [p EXCEPT !.diag = Append(@, d)]]

\* Parser::report_span
report_span(p, severity, msg, span) == report_diag(p, Diag(severity, msg, span))

\* the DelimGroup a group token holds: the opening and the closing token
\* (known by the span of the group) and the tokens between them
DelimGroupOf(t) ==
    [open |-> [kind |-> "OpenDelim", val |-> t.val, span |-> t.span, tokens |-> <<>>],
     close |-> [kind |-> "CloseDelim", val |-> t.val, span |-> t.span, tokens |-> <<>>],
     tokens |-> t.tokens]

\* Parser::consume_if_delim
consume_if_delim(p, expected) ==
    LET c == consume(p)
    IN  IF c.val.kind = "DelimGroup" /\ c.val.val = expected
        THEN Ok(<<DelimGroupOf(c.val)>>, c.p)
        ELSE Ok(<<>>, pushback(c.p, c.val))

\* Parser::consume_if_eof
consume_if_eof(p) ==
    IF peek(p).kind = "Eof" THEN Ok(<<"eof">>, consume(p).p) ELSE Ok(<<>>, p)

\* Parser::consume_if_id
consume_if_id(p) ==
    LET c == consume(p)
    IN  IF c.val.kind = "Id"
        THEN Ok(<<[name |-> c.val.val, span |-> c.val.span]>>, c.p)
        ELSE Ok(<<>>, pushback(c.p, c.val))

\* Parser::consume_if_kw
consume_if_kw(p, kw) ==
    IF peek(p).kind = "Keyword" /\ peek(p).val = kw
    THEN Ok(<<peek(p)>>, consume(p).p) ELSE Ok(<<>>, p)

\* Parser::consume_if_op
consume_if_op(p, op) ==
    IF peek(p).kind = "Operator" /\ peek(p).val = op
    THEN Ok(<<peek(p)>>, consume(p).p) ELSE Ok(<<>>, p)

\* wrong on purpose: the error recovery takes the token that is there
Parser_expect_delim_Consumes(p, expected) ==
    LET c == consume_if_delim(p, expected)
        span == peek(c.p).span
    IN  IF c.val # <<>> THEN Ok(c.val[1], c.p)
        ELSE LET r == report_span(c.p, "Error", "expected open delimiter", span)
             IN  IF ~r.ok THEN Err(r.p)
                 ELSE Ok([open |-> UnknownTok(span), close |-> UnknownTok(span),
                          tokens |-> <<>>], consume(r.p).p)

\* Parser::expect_delim
Parser_expect_delim(p, expected) ==
    LET c == consume_if_delim(p, expected)
        span == peek(c.p).span
    IN  IF c.val # <<>> THEN Ok(c.val[1], c.p)
        ELSE LET r == report_span(c.p, "Error", "expected open delimiter", span)
             IN  IF ~r.ok THEN Err(r.p)
                 ELSE Ok([open |-> UnknownTok(span), close |-> UnknownTok(span),
                          tokens |-> <<>>], r.p)

\* Parser::expect_eof
expect_eof(p) ==
    IF peek(p).kind = "Eof" THEN Ok(<<>>, p)
    ELSE LET r == report_span(p, "Error", "unexpected extra token", peek(p).span)
         IN  IF ~r.ok THEN Err(r.p) ELSE Ok(<<>>, r.p)

\* Parser::expect_id
Parser_expect_id(p) ==
    LET c == consume_if_id(p)
    IN  IF c.val # <<>> THEN Ok(c.val[1], c.p)
        ELSE LET r == report_span(c.p, "Error", "expected identifier", peek(c.p).span)
             IN  IF ~r.ok THEN Err(r.p)
                 ELSE Ok([name |-> "", span |-> peek(c.p).span], r.p)

\* Parser::expect_op
expect_op(p, op) ==
    LET c == consume_if_op(p, op)
    IN  IF c.val # <<>> THEN Ok(c.val[1], c.p)
        ELSE LET r == report_span(c.p, "Error", "expected operator", peek(c.p).span)
             IN  IF ~r.ok THEN Err(r.p) ELSE Ok(UnknownTok(peek(c.p).span), r.p)

\* Parser::delim_group, first statement: the stream of the group becomes the
\* active one (the caller keeps the replaced stream in saved)
delim_group_enter(p, stream) == [p EXCEPT !.lexer = stream]

\* Parser::delim_group, from the return of f (r) on: propagate its Err,
\* expect the end of the stream, put the saved stream back
delim_group(saved, r) ==
    IF ~r.ok THEN r
    ELSE LET e == expect_eof(r.p)
         IN  IF ~e.ok THEN Err(e.p)
             ELSE Ok(r.val, [e.p EXCEPT !.lexer = saved])

(***************************************************************************)
(* Names and expressions.  The methods of the parser are mutually          *)
(* recursive: a method invokes another one by its name through call, the   *)
(* operator defined after them, so that self.parse_dim() of the source is  *)
(* call("parse_dim", p, <<>>) and this.parse_data_type(true) is            *)
(* call("parse_data_type", p, TRUE); a method of more than one further     *)
(* argument takes them as a tuple.                                         *)
(***************************************************************************)
RECURSIVE call(_, _, _)

\* Parser::is_prefix_operator
is_prefix_operator(op) ==
    op \in {"Add", "Sub", "LNot", "Not", "And", "Nand", "Or", "Nor", "Xor", "Xnor",
            "Inc", "Dec"}

\* Parser::parse_scope
\* (scope is the Option built so far by the loop)
parse_scope(p) ==
    LET RECURSIVE loop(_, _)
        loop(q, scope) ==
            LET t == peek(q)
            IN  IF t.kind = "Keyword" /\ t.val \in {"local", "$unit"}
                THEN LET c == consume(q)
                         r == IF scope # <<>>
                              THEN call("report_span", c.p,
                                        <<"Error",
                                          IF t.val = "local"
                                          THEN "local scope can only be the outermost scope"
                                          ELSE "$unit scope can only be the outermost scope",
                                          t.span>>)
                              ELSE Ok(<<>>, c.p)
                         s2 == IF scope # <<>> THEN scope ELSE <<[tag |-> "Local"]>>
                     IN  IF ~r.ok THEN Err(r.p)
                         ELSE LET e == call("expect_op", r.p, "ScopeSep")
                              IN  IF ~e.ok THEN Err(e.p) ELSE loop(e.p, s2)
                ELSE IF t.kind = "Id"
                THEN LET n1 == peek_n(q, 1)
                         is_scope ==
                            \/ n1.kind = "Operator" /\ n1.val = "ScopeSep"
                            \/ /\ n1.kind = "Operator" /\ n1.val = "Hash"
                               /\ peek_n(q, 2).kind = "DelimGroup" /\ peek_n(q, 2).val = "Paren"
                               /\ peek_n(q, 3).kind = "Operator" /\ peek_n(q, 3).val = "ScopeSep"
                     IN  IF ~is_scope THEN Ok(scope, q)
                         ELSE LET i == call("Parser_expect_id", q, <<>>)
                              IN  IF ~i.ok THEN Err(i.p)
                                  ELSE IF call("consume_if_op", i.p, "Hash").val # <<>>
                                  THEN LET f == call("report_span", call("consume_if_op", i.p, "Hash").p,
                                                     <<"Fatal", "class parameter scope is not yet supported",
                                                       i.val.span>>)
                                       IN  IF ~f.ok THEN Err(f.p) ELSE Unreachable(f.p)
                                  ELSE LET e == call("expect_op", i.p, "ScopeSep")
                                       IN  IF ~e.ok THEN Err(e.p)
                                           ELSE loop(e.p,
                                                  <<[tag |-> "Name", outer |-> scope, ident |-> i.val]>>)
                ELSE Ok(scope, q)
    IN  loop(p, <<>>)

\* Parser::parse_hier_id
\* part is its closure (more is the bool it returns, id the captured
\* Option<HierId>), rest the loop of parse_sep_list_unit(Dot, true, false, ..)
\* after the first element
parse_hier_id(p) ==
    LET part(q, id) ==
            LET t == peek(q)
                one(r, id2) == [ok |-> r.ok, more |-> TRUE, id |-> id2, p |-> r.p]
            IN  IF t.kind = "Keyword" /\ t.val = "this"
                THEN IF id # <<>>
                     THEN one(call("report_span", consume(q).p,
                                   <<"Error", "this can only be the outermost identifier",
                                     t.span>>), id)
                     ELSE one(consume(q), <<[tag |-> "This"]>>)
                ELSE IF t.kind = "Keyword" /\ t.val = "super"
                THEN IF id = <<>> \/ id = <<[tag |-> "This"]>>
                     THEN one(consume(q), <<[tag |-> "Super"]>>)
                     ELSE one(call("report_span", consume(q).p,
                                   <<"Error", "super can only be the outermost identifier",
                                     t.span>>), id)
                ELSE IF t.kind = "Keyword" /\ t.val = "$root"
                THEN IF id # <<>>
                     THEN one(call("report_span", consume(q).p,
                                   <<"Error", "$root can only be the outermost identifier",
                                     t.span>>), id)
                     ELSE one(consume(q), <<[tag |-> "Root"]>>)
                ELSE IF t.kind = "Id"
                THEN LET i == call("Parser_expect_id", q, <<>>)
                     IN  one(i, <<[tag |-> "Name", parent |-> id, ident |-> i.val]>>)
                ELSE [ok |-> TRUE, more |-> FALSE, id |-> id, p |-> q]
        RECURSIVE rest(_, _)
        rest(q, id) ==
            LET dot == call("consume_if_op", q, "Dot")
            IN  IF dot.val = <<>> THEN Ok(id, q)
                ELSE LET e == part(dot.p, id)
                     IN  IF ~e.ok THEN Err(e.p)
                         ELSE IF e.more THEN rest(e.p, e.id)
                         ELSE LET r == call("report_span", e.p,
                                            <<"Error", "trailing separator is not allowed; consider removing it",
                                              dot.val[1].span>>)
                              IN  IF ~r.ok THEN Err(r.p) ELSE Ok(e.id, r.p)
        e == part(p, <<>>)
    IN  IF ~e.ok THEN Err(e.p)
        ELSE IF ~e.more THEN Ok(e.id, e.p)
        ELSE rest(e.p, e.id)


\* Parser::unwrap on the Option<Expr> of r: Expr has no recovery value
unwrap(r) ==
    IF r.val # <<>> THEN Ok(r.val[1], r.p)
    ELSE LET f == call("report_span", r.p,
                       <<"Fatal", "expression support is not completed yet",
                         peek(r.p).span>>)
         IN  Err(f.p)

\* Parser::parse_unwrap applied to Self::parse_expr, the parse!(expr) of the source
parse_unwrap(p) ==
    LET r == call("parse_expr", p, <<>>)
    IN  IF ~r.ok THEN Err(r.p) ELSE unwrap(r)

\* Parser::parse_expr_or_type
parse_expr_or_type(p) ==
    LET r == call("parse_unwrap", p, <<>>)
    IN  IF ~r.ok THEN Err(r.p) ELSE Ok([tag |-> "Expr", expr |-> r.val], r.p)

\* Parser::parse_single_select: parse_delim(Delim::Bracket, ..) of the closure
\* body
parse_single_select(p) ==
    LET body(q) ==
            LET e == call("parse_unwrap", q, <<>>)
                t == peek(e.p)
            IN  IF ~e.ok THEN Err(e.p)
                ELSE IF t.kind = "Operator" /\ t.val \in {"Colon", "PlusColon", "MinusColon"}
                THEN LET e2 == call("parse_unwrap", consume(e.p).p, <<>>)
                     IN  IF ~e2.ok THEN Err(e2.p)
                         ELSE Ok([tag |-> CASE t.val = "Colon" -> "Range"
                                            [] t.val = "PlusColon" -> "PlusRange"
                                            [] OTHER -> "MinusRange",
                                  from |-> <<e.val>>, to |-> <<e2.val>>], e2.p)
                ELSE Ok([tag |-> "Value", from |-> <<e.val>>, to |-> <<>>], e.p)
        d == call("Parser_expect_delim", p, "Bracket")
    IN  IF ~d.ok THEN Err(d.p)
        ELSE delim_group(d.p.lexer, body(delim_group_enter(d.p, d.val.tokens)))

\* Parser::parse_select
parse_select(p, expr) ==
    LET t == peek(p)
    IN  IF t.kind = "DelimGroup" /\ t.val = "Bracket"
        THEN LET s == call("parse_single_select", p, <<>>)
             IN  IF ~s.ok THEN Err(s.p)
                 ELSE call("parse_select", s.p, [tag |-> "Select", expr |-> <<expr>>, sel |-> s.val])
        ELSE IF t.kind = "Operator" /\ t.val = "Dot"
        THEN LET i == call("Parser_expect_id", consume(p).p, <<>>)
             IN  IF ~i.ok THEN Err(i.p)
                 ELSE call("parse_select", i.p, [tag |-> "Member", expr |-> <<expr>>, sel |-> i.val])
        ELSE Ok(expr, p)

\* a Fatal report followed by unreachable!()
NotFinished(p, msg) ==
    LET f == call("report_span", p, <<"Fatal", msg, peek(p).span>>)
    IN  IF ~f.ok THEN Err(f.p) ELSE Unreachable(f.p)

\* Parser::parse_primary_nocast
parse_primary_nocast(p) ==
    LET t == peek(p)
    IN  IF t.kind = "Eof" THEN Ok(<<>>, p)
        ELSE IF \/ t.kind \in {"RealLiteral", "IntegerLiteral", "TimeLiteral",
                               "UnbasedLiteral", "StringLiteral"}
                \/ t.kind = "Operator" /\ t.val = "Dollar"
                \/ t.kind = "Keyword" /\ t.val = "null"
        THEN Ok(<<[tag |-> "Literal", tok |-> t]>>, consume(p).p)
        ELSE IF t.kind = "DelimGroup" /\ t.val = "Brace"
        THEN call("NotFinished", p, "concat is not finished yet")
        ELSE IF t.kind = "DelimGroup" /\ t.val = "TickBrace"
        THEN call("NotFinished", p, "assign pattern is not finished yet")
        ELSE IF t.kind = "DelimGroup" /\ t.val = "Paren"
        THEN call("NotFinished", p, "paren is not finished yet")
        ELSE
        LET sc == call("parse_scope", p, <<>>)
            id == call("parse_hier_id", sc.p, <<>>)
        IN  IF ~sc.ok THEN Err(sc.p)
            ELSE IF ~id.ok THEN Err(id.p)
            ELSE IF sc.val = <<>> /\ id.val = <<>> THEN Ok(<<>>, id.p)
            ELSE
            LET r == IF sc.val # <<>> /\ id.val = <<>>
                     THEN call("report_span", id.p,
                               <<"Error", "expected identifiers after scope",
                                 peek(id.p).span>>)
                     ELSE Ok(<<>>, id.p)
                id2 == IF id.val = <<>>
                       THEN [tag |-> "Name", parent |-> <<>>,
                             ident |-> [name |-> "", span |-> <<>>]]
                       ELSE id.val[1]
                expr == [tag |-> "HierName", scope |-> sc.val, id |-> id2]
                n == peek(r.p)
            IN  IF ~r.ok THEN Err(r.p)
                ELSE IF n.kind = "DelimGroup" /\ n.val = "TickBrace"
                THEN call("NotFinished", r.p, "assign pattern is not finished yet")
                ELSE IF n.kind = "DelimGroup" /\ n.val = "Attr"
                THEN call("NotFinished", r.p, "inc/dec or function call not finished yet")
                ELSE IF n.kind = "DelimGroup" /\ n.val = "Paren"
                THEN call("NotFinished", r.p, "function call not finished yet")
                ELSE IF n.kind = "Operator" /\ n.val \in {"Inc", "Dec"}
                THEN call("NotFinished", r.p, "inc/dec not finished yet")
                ELSE IF n.kind = "DelimGroup" /\ n.val = "Bracket"
                THEN LET s == call("parse_select", r.p, expr)
                     IN  IF ~s.ok THEN Err(s.p) ELSE Ok(<<s.val>>, s.p)
                ELSE Ok(<<expr>>, r.p)

\* Parser::parse_expr
parse_expr(p) ==
    LET t == peek(p)
    IN  IF t.kind = "Keyword" /\ t.val = "tagged"
        THEN call("NotFinished", p, "tagged_union_expression not yet supported")
        ELSE IF t.kind = "Operator" /\ is_prefix_operator(t.val)
        THEN call("NotFinished", p, "prefix_expression not yet supported")
        ELSE call("parse_primary_nocast", p, <<>>)

(***************************************************************************)
(* Lists, dimensions, data types and declaration assignments.  The FnMut   *)
(* argument f of a list method is the name of the function or closure      *)
(* given at the call site; the method invokes it through call, with the    *)
(* list element (check_list), the captured state (parse_comma_list_unit)   *)
(* or <<>> as the other argument.  A closure that captures mutable state   *)
(* returns it in st, next to the bool it returns in more.                  *)
(***************************************************************************)

\* Parser::parse_list
parse_list(p, f) ==
    LET RECURSIVE loop(_, _)
        loop(q, acc) ==
            LET r == call(f, q, <<>>)
            IN  IF ~r.ok THEN Err(r.p)
                ELSE IF r.val = <<>> THEN Ok(acc, r.p)
                ELSE loop(r.p, Append(acc, r.val[1]))
    IN  loop(p, <<>>)

\* Parser::parse_comma_list
parse_comma_list(p, f, empty, trail) ==
    LET RECURSIVE loop(_, _)
        loop(q, acc) ==
            LET comma == call("consume_if_op", q, "Comma")
                r == call(f, comma.p, <<>>)
            IN  IF comma.val = <<>> THEN Ok(acc, q)
                ELSE IF ~r.ok THEN Err(r.p)
                ELSE IF r.val # <<>> THEN loop(r.p, Append(acc, r.val[1]))
                ELSE IF trail THEN Ok(acc, r.p)
                ELSE LET e == call("report_span", r.p,
                                   <<"Error", "trailing comma is not allowed; consider removing it",
                                     comma.val[1].span>>)
                     IN  IF ~e.ok THEN Err(e.p) ELSE Ok(acc, e.p)
        first == call(f, p, <<>>)
    IN  IF ~first.ok THEN Err(first.p)
        ELSE IF first.val # <<>> THEN loop(first.p, first.val)
        ELSE IF empty THEN Ok(<<>>, first.p)
        ELSE LET e == call("report_span", first.p,
                           <<"Error", "empty list not allowed",
                             peek(first.p).span>>)
             IN  IF ~e.ok THEN Err(e.p) ELSE Ok(<<>>, e.p)

\* Parser::parse_comma_list_unit: val is the state the closure leaves
parse_comma_list_unit(p, f, st0, empty, trail) ==
    LET RECURSIVE loop(_, _)
        loop(q, st) ==
            LET comma == call("consume_if_op", q, "Comma")
                r == call(f, comma.p, st)
            IN  IF comma.val = <<>> THEN Ok(st, q)
                ELSE IF ~r.ok THEN Err(r.p)
                ELSE IF r.more THEN loop(r.p, r.st)
                ELSE IF trail THEN Ok(r.st, r.p)
                ELSE LET e == call("report_span", r.p,
                                   <<"Error", "trailing comma is not allowed; consider removing it",
                                     comma.val[1].span>>)
                     IN  IF ~e.ok THEN Err(e.p) ELSE Ok(r.st, e.p)
        first == call(f, p, st0)
    IN  IF ~first.ok THEN Err(first.p)
        ELSE IF first.more THEN loop(first.p, first.st)
        ELSE IF empty THEN Ok(first.st, first.p)
        ELSE LET e == call("report_span", first.p,
                           <<"Error", "empty list not allowed",
                             peek(first.p).span>>)
             IN  IF ~e.ok THEN Err(e.p) ELSE Ok(first.st, e.p)

\* Parser::check_list: val is the list with the rejected elements removed
check_list(p, f, list) ==
    LET RECURSIVE loop(_, _, _)
        loop(q, i, kept) ==
            IF i > Len(list) THEN Ok(kept, q)
            ELSE LET r == call(f, q, list[i])
                 IN  IF ~r.ok THEN Err(r.p)
                     ELSE loop(r.p, i + 1, IF r.val THEN Append(kept, list[i]) ELSE kept)
    IN  loop(p, 1, <<>>)

\* Parser::parse_port_dir
parse_port_dir(p) ==
    LET t == peek(p)
    IN  IF t.kind = "Keyword" /\ t.val \in {"input", "output", "inout", "ref"}
        THEN Ok(<<CASE t.val = "input" -> "Input" [] t.val = "output" -> "Output"
                    [] t.val = "inout" -> "Inout" [] OTHER -> "Ref">>, consume(p).p)
        ELSE Ok(<<>>, p)

\* Parser::parse_lifetime
parse_lifetime(p) ==
    LET t == peek(p)
    IN  IF t.kind = "Keyword" /\ t.val = "automatic" THEN Ok("Automatic", consume(p).p)
        ELSE IF t.kind = "Keyword" /\ t.val = "static" THEN Ok("Static", consume(p).p)
        ELSE Ok("Static", p)

\* Parser::parse_signing
parse_signing(p) ==
    LET t == peek(p)
    IN  IF t.kind = "Keyword" /\ t.val = "signed" THEN Ok("Signed", consume(p).p)
        ELSE IF t.kind = "Keyword" /\ t.val = "unsigned" THEN Ok("Unsigned", consume(p).p)
        ELSE Ok("Unsigned", p)

DimOf(kind, from, to) == [kind |-> kind, from |-> from, to |-> to, span |-> <<>>]

\* Parser::parse_dim: parse_if_delim_spanned(Delim::Bracket, ..) of the closure
\* body
parse_dim(p) ==
    LET body(q) ==
            LET u == peek(q)
            IN  IF u.kind = "Eof" THEN Ok(DimOf("Unsized", <<>>, <<>>), q)
                ELSE IF u.kind = "Operator" /\ u.val = "Dollar"
                THEN LET colon == call("consume_if_op", consume(q).p, "Colon")
                         limit == call("parse_unwrap", colon.p, <<>>)
                     IN  IF colon.val = <<>> THEN Ok(DimOf("Queue", <<>>, <<>>), colon.p)
                         ELSE IF ~limit.ok THEN Err(limit.p)
                         ELSE Ok(DimOf("Queue", <<limit.val>>, <<>>), limit.p)
                ELSE IF u.kind = "Operator" /\ u.val = "Mul"
                THEN Ok(DimOf("AssocWild", <<>>, <<>>), consume(q).p)
                ELSE LET e == call("parse_expr_or_type", q, <<>>)
                         colon == call("consume_if_op", e.p, "Colon")
                         end == call("parse_unwrap", colon.p, <<>>)
                     IN  IF ~e.ok THEN Err(e.p)
                         ELSE IF colon.val = <<>> THEN Ok(DimOf("Value", <<e.val.expr>>, <<>>), colon.p)
                         ELSE IF ~end.ok THEN Err(end.p)
                         ELSE Ok(DimOf("Range", <<e.val.expr>>, <<end.val>>), end.p)
        t == peek(p)
    IN  IF ~(t.kind = "DelimGroup" /\ t.val = "Bracket") THEN Ok(<<>>, p)
        ELSE LET c == consume(p)
                 r == delim_group(c.p.lexer, body(delim_group_enter(c.p, t.tokens)))
             IN  IF ~r.ok THEN Err(r.p)
                 ELSE Ok(<<[r.val EXCEPT !.span = t.span]>>, r.p)

check_unpacked_dim_AllowUnsized(p, dim) ==
    IF dim.kind \in {"Assoc", "AssocWild", "Queue"}
    THEN LET r == call("report_span", p,
                       <<"Error", "this type of range is not allowed in unpacked dimension context",
                         dim.span>>)
         IN  IF ~r.ok THEN Err(r.p) ELSE Ok(FALSE, r.p)
    ELSE Ok(TRUE, p)

\* Parser::check_unpacked_dim
check_unpacked_dim(p, dim) ==
    IF dim.kind \in {"Assoc", "AssocWild", "Queue", "Unsized"}
    THEN LET r == call("report_span", p,
                       <<"Error", "this type of range is not allowed in unpacked dimension context",
                         dim.span>>)
         IN  IF ~r.ok THEN Err(r.p) ELSE Ok(FALSE, r.p)
    ELSE Ok(TRUE, p)

\* Parser::parse_pack_dim
parse_pack_dim(p) ==
    LET d == call("parse_dim", p, <<>>)
    IN  IF ~d.ok THEN Err(d.p)
        ELSE IF d.val = <<>> THEN Ok(<<>>, d.p)
        ELSE IF d.val[1].kind \in {"Assoc", "AssocWild", "Queue", "Value"}
        THEN LET r == call("report_span", d.p,
                           <<"Error", "this type of range is not allowed in packed dimension context",
                             d.val[1].span>>)
             IN  IF ~r.ok THEN Err(r.p) ELSE Ok(<<>>, r.p)
        ELSE Ok(d.val, d.p)

DataTypeOf(kind, kw, sign, dim, span) ==
    [kind |-> kind, kw |-> kw, sign |-> sign, dim |-> dim, span |-> span]

\* wrong on purpose: the token is pushed back only when an implicit type is
\* parsed
parse_data_type_NoPushback(p, implicit) ==
    LET c == consume(p)
        t == c.val
        back == pushback(c.p, t)
    IN  IF t.kind = "Keyword" /\ t.val \in {"bit", "logic", "reg"}
        THEN LET sign == call("parse_signing", c.p, <<>>)
                 dim == call("parse_list", sign.p, "parse_pack_dim")
             IN  IF ~dim.ok THEN Err(dim.p)
                 ELSE Ok(<<DataTypeOf("IntVec", t.val, sign.val, dim.val, t.span)>>, dim.p)
        ELSE IF t.kind = "Keyword" /\ t.val \in {"signed", "unsigned"}
        THEN IF ~implicit THEN Ok(<<>>, c.p)
             ELSE LET sign == call("parse_signing", back, <<>>)
                      dim == call("parse_list", sign.p, "parse_pack_dim")
                  IN  IF ~dim.ok THEN Err(dim.p)
                      ELSE Ok(<<DataTypeOf("Implicit", "", sign.val, dim.val, t.span)>>, dim.p)
        ELSE IF t.kind = "DelimGroup" /\ t.val = "Bracket"
        THEN IF ~implicit THEN Ok(<<>>, c.p)
             ELSE LET dim == call("parse_list", back, "parse_pack_dim")
                  IN  IF ~dim.ok THEN Err(dim.p)
                      ELSE Ok(<<DataTypeOf("Implicit", "", "Unsigned", dim.val, t.span)>>, dim.p)
        ELSE Ok(<<>>, back)

\* Parser::parse_data_type
parse_data_type(p, implicit) ==
    LET c == consume(p)
        t == c.val
        back == pushback(c.p, t)
    IN  IF t.kind = "Keyword" /\ t.val \in {"bit", "logic", "reg"}
        THEN LET sign == call("parse_signing", c.p, <<>>)
                 dim == call("parse_list", sign.p, "parse_pack_dim")
             IN  IF ~dim.ok THEN Err(dim.p)
                 ELSE Ok(<<DataTypeOf("IntVec", t.val, sign.val, dim.val, t.span)>>, dim.p)
        ELSE IF t.kind = "Keyword" /\ t.val \in {"signed", "unsigned"}
        THEN IF ~implicit THEN Ok(<<>>, back)
             ELSE LET sign == call("parse_signing", back, <<>>)
                      dim == call("parse_list", sign.p, "parse_pack_dim")
                  IN  IF ~dim.ok THEN Err(dim.p)
                      ELSE Ok(<<DataTypeOf("Implicit", "", sign.val, dim.val, t.span)>>, dim.p)
        ELSE IF t.kind = "DelimGroup" /\ t.val = "Bracket"
        THEN IF ~implicit THEN Ok(<<>>, back)
             ELSE LET dim == call("parse_list", back, "parse_pack_dim")
                  IN  IF ~dim.ok THEN Err(dim.p)
                      ELSE Ok(<<DataTypeOf("Implicit", "", "Unsigned", dim.val, t.span)>>, dim.p)
        ELSE Ok(<<>>, back)

\* the part parse_param_assign and parse_decl_assign share: the identifier,
\* its dimensions and the check of the dimensions
assign_head(p) ==
    LET id == call("Parser_expect_id", p, <<>>)
        dim == call("parse_list", id.p, "parse_dim")
        id2 == call("consume_if_id", dim.p, <<>>)
        r == call("report_span", id2.p,
                  <<"Error", "this looks like a data type but it is not declared",
                    id.val.span>>)
        dim2 == call("parse_list", r.p, "parse_dim")
    IN  IF ~id.ok THEN Err(id.p)
        ELSE IF ~dim.ok THEN Err(dim.p)
        ELSE IF id2.val = <<>>
        THEN LET c == call("check_list", id2.p, <<"check_unpacked_dim", dim.val>>)
             IN  IF ~c.ok THEN Err(c.p) ELSE Ok([name |-> id.val, dim |-> c.val], c.p)
        ELSE IF ~r.ok THEN Err(r.p)
        ELSE IF ~dim2.ok THEN Err(dim2.p)
        ELSE LET c == call("check_list", dim2.p, <<"check_unpacked_dim", dim2.val>>)
             IN  IF ~c.ok THEN Err(c.p) ELSE Ok([name |-> id2.val[1], dim |-> c.val], c.p)

\* Parser::parse_param_assign
parse_param_assign(p) ==
    LET h == call("assign_head", p, <<>>)
        eq == call("consume_if_op", h.p, "Assign")
        init == call("parse_expr_or_type", eq.p, <<>>)
    IN  IF ~h.ok THEN Err(h.p)
        ELSE IF eq.val = <<>>
        THEN Ok([name |-> h.val.name, dim |-> h.val.dim, init |-> <<>>], eq.p)
        ELSE IF ~init.ok THEN Err(init.p)
        ELSE Ok([name |-> h.val.name, dim |-> h.val.dim, init |-> <<init.val.expr>>], init.p)

\* Parser::parse_decl_assign
parse_decl_assign(p) ==
    LET h == call("assign_head", p, <<>>)
        eq == call("consume_if_op", h.p, "Assign")
        init == call("parse_unwrap", eq.p, <<>>)
    IN  IF ~h.ok THEN Err(h.p)
        ELSE IF eq.val = <<>>
        THEN Ok([name |-> h.val.name, dim |-> h.val.dim, init |-> <<>>], eq.p)
        ELSE IF ~init.ok THEN Err(init.p)
        ELSE Ok([name |-> h.val.name, dim |-> h.val.dim, init |-> <<init.val>>], init.p)

(***************************************************************************)
(* Module headers: the parameter port list and the port list.              *)
(***************************************************************************)
ParamDeclOf(kw, ty, list) == [kw |-> kw, ty |-> ty, list |-> list]

\* mem::replace(&mut param_decl, new) followed by the push of the old
\* declaration when its list is not empty
replace_param_decl(st, new) ==
    [vec |-> IF st.param_decl.list # <<>> THEN Append(st.vec, st.param_decl) ELSE st.vec,
     param_decl |-> new]

\* the closure parse_param_port_list gives to parse_comma_list_unit, st
\* holding the captured vec and param_decl
param_port_decl(q, st) ==
    LET t == peek(q)
        is_kw == t.kind = "Keyword" /\ t.val \in {"parameter", "localparam"}
        p1 == IF is_kw THEN consume(q).p ELSE q
        st1 == IF is_kw THEN replace_param_decl(st, ParamDeclOf(t.val, <<>>, <<>>)) ELSE st
        ty == call("consume_if_kw", p1, "type")
        dt == call("parse_data_type", p1, TRUE)
        p2 == IF ty.val # <<>> THEN ty.p ELSE dt.p
        st2 == IF ty.val # <<>>
               THEN replace_param_decl(st1,
                        ParamDeclOf(st1.param_decl.kw, <<[sort |-> "Kind", dt |-> <<>>]>>, <<>>))
               ELSE IF dt.val # <<>>
               THEN replace_param_decl(st1,
                        ParamDeclOf(st1.param_decl.kw, <<[sort |-> "Type", dt |-> dt.val]>>, <<>>))
               ELSE st1
        assign == call("parse_param_assign", p2, <<>>)
    IN  IF t.kind = "Eof" THEN [ok |-> TRUE, more |-> FALSE, st |-> st, p |-> q]
        ELSE IF ty.val = <<>> /\ ~dt.ok THEN [ok |-> FALSE, more |-> FALSE, st |-> st1, p |-> dt.p]
        ELSE IF ~assign.ok THEN [ok |-> FALSE, more |-> FALSE, st |-> st2, p |-> assign.p]
        ELSE [ok |-> TRUE, more |-> TRUE,
              st |-> [st2 EXCEPT !.param_decl.list = Append(@, assign.val)],
              p |-> assign.p]

\* Parser::parse_param_port_list; body is the closure given to parse_delim
parse_param_port_list(p) ==
    LET body(q) ==
            LET r == call("parse_comma_list_unit", q,
                          <<"param_port_decl",
                            [vec |-> <<>>, param_decl |-> ParamDeclOf("parameter", <<>>, <<>>)],
                            TRUE, FALSE>>)
            IN  IF ~r.ok THEN Err(r.p)
                ELSE Ok(<<IF r.val.param_decl.list # <<>>
                          THEN Append(r.val.vec, r.val.param_decl) ELSE r.val.vec>>, r.p)
        hash == call("consume_if_op", p, "Hash")
        d == call("Parser_expect_delim", hash.p, "Paren")
    IN  IF hash.val = <<>> THEN Ok(<<>>, p)
        ELSE IF ~d.ok THEN Err(d.p)
        ELSE delim_group(d.p.lexer, body(delim_group_enter(d.p, d.val.tokens)))

\* mem::replace(&mut prev, Some(decl)) followed by the push of the old prev
replace_prev(st, decl) ==
    [st EXCEPT !.vec = IF st.prev # <<>> THEN Append(@, st.prev[1]) ELSE @,
               !.prev = <<decl>>]

\* the direction a port without one takes: the closure given to
\* dir.unwrap_or_else
\* wrong on purpose: the direction of the previous port is kept after an
\* interface port too (there is none: input is taken)
default_dir_AfterInterface(prev) ==
    IF prev = <<>> THEN "Inout" ELSE IF prev[1].tag = "Interface" THEN "Input" ELSE prev[1].dir

default_dir(prev) ==
    IF prev = <<>> \/ prev[1].tag = "Interface" THEN "Inout" ELSE prev[1].dir

\* the net type a port without one takes: the closure given to
\* net.unwrap_or_else
default_net(dir, dtype) ==
    CASE dir \in {"Input", "Inout"} -> "Default"
      [] dir = "Output" -> IF dtype = <<>> \/ dtype[1].kind = "Implicit"
                           THEN "Default" ELSE "Variable"
      [] OTHER -> "Variable"

\* the interface header of a port: val is <<>> when the port is not an
\* interface port, else the pair of Option<Ident> of interface and modport
interface_header(p) ==
    LET t == peek(p)
    IN  IF t.kind = "Keyword" /\ t.val = "interface"
        THEN LET dot == call("consume_if_op", consume(p).p, "Dot")
                 modport == call("Parser_expect_id", dot.p, <<>>)
             IN  IF dot.val = <<>> THEN Ok(<<[intf |-> <<>>, modport |-> <<>>]>>, dot.p)
                 ELSE IF ~modport.ok THEN Err(modport.p)
                 ELSE Ok(<<[intf |-> <<>>, modport |-> <<modport.val>>]>>, modport.p)
        ELSE IF t.kind = "Id" /\ peek_n(p, 1).kind = "Operator" /\ peek_n(p, 1).val = "Dot"
        THEN LET intf == call("Parser_expect_id", p, <<>>)
                 modport == call("Parser_expect_id", consume(intf.p).p, <<>>)
             IN  IF ~intf.ok THEN Err(intf.p)
                 ELSE IF ~modport.ok THEN Err(modport.p)
                 ELSE Ok(<<[intf |-> <<intf.val>>, modport |-> <<modport.val>>]>>, modport.p)
        ELSE IF t.kind = "Id" /\ peek_n(p, 1).kind = "Id"
        THEN LET intf == call("Parser_expect_id", p, <<>>)
             IN  IF ~intf.ok THEN Err(intf.p)
                 ELSE Ok(<<[intf |-> <<intf.val>>, modport |-> <<>>]>>, intf.p)
        ELSE Ok(<<>>, p)

\* the explicit port .name(expr) from the name on
explicit_port(p, st, dir) ==
    LET name == call("Parser_expect_id", p, <<>>)
        d == call("Parser_expect_delim", name.p, "Paren")
        e == delim_group(d.p.lexer, call("parse_expr", delim_group_enter(d.p, d.val.tokens), <<>>))
        expr == unwrap(e)
        decl == [tag |-> "Explicit",
                 dir |-> IF dir # <<>> THEN dir[1] ELSE default_dir(st.prev),
                 name |-> name.val, expr |-> expr.val]
        fail(q) == [ok |-> FALSE, more |-> FALSE, st |-> st, p |-> q]
    IN  IF ~name.ok THEN fail(name.p)
        ELSE IF ~d.ok THEN fail(d.p)
        ELSE IF ~e.ok THEN fail(e.p)
        ELSE IF ~expr.ok THEN fail(expr.p)
        ELSE [ok |-> TRUE, more |-> TRUE, st |-> replace_prev(st, decl), p |-> expr.p]

\* wrong on purpose: an interface port that states a direction is reported
\* and not recorded
interface_port_Dropped(p, st, dir, dirsp, hd) ==
    LET r == IF dir # <<>>
             THEN call("report_span", p,
                       <<"Error", "interface declaration should not be specified together with direction",
                         dirsp>>)
             ELSE Ok(<<>>, p)
        assign == call("parse_decl_assign", r.p, <<>>)
        decl == [tag |-> "Interface", intf |-> hd.intf, modport |-> hd.modport,
                 list |-> <<assign.val>>]
        fail(q) == [ok |-> FALSE, more |-> FALSE, st |-> st, p |-> q]
    IN  IF ~r.ok THEN fail(r.p)
        ELSE IF ~assign.ok THEN fail(assign.p)
        ELSE IF dir # <<>> THEN [ok |-> TRUE, more |-> TRUE, st |-> st, p |-> assign.p]
        ELSE [ok |-> TRUE, more |-> TRUE, st |-> replace_prev(st, decl), p |-> assign.p]

\* the interface port from its declaration assignment on
interface_port(p, st, dir, dirsp, hd) ==
    LET r == IF dir # <<>>
             THEN call("report_span", p,
                       <<"Error", "interface declaration should not be specified together with direction",
                         dirsp>>)
             ELSE Ok(<<>>, p)
        assign == call("parse_decl_assign", r.p, <<>>)
        decl == [tag |-> "Interface", intf |-> hd.intf, modport |-> hd.modport,
                 list |-> <<assign.val>>]
        fail(q) == [ok |-> FALSE, more |-> FALSE, st |-> st, p |-> q]
    IN  IF ~r.ok THEN fail(r.p)
        ELSE IF ~assign.ok THEN fail(assign.p)
        ELSE [ok |-> TRUE, more |-> TRUE, st |-> replace_prev(st, decl), p |-> assign.p]

data_port_NeverInherit(p, st, dir, net, dtype, dirsp) ==
    LET assign == call("parse_decl_assign", p, <<>>)
        dir2 == IF dir # <<>> THEN dir[1] ELSE default_dir(st.prev)
        net2 == IF net # <<>> THEN net[1] ELSE default_net(dir2, dtype)
        dtype2 == IF dtype # <<>> THEN dtype[1]
                  ELSE DataTypeOf("Implicit", "", "Unsigned", <<>>, dirsp)
        decl == [tag |-> "Data", dir |-> dir2, net |-> net2, dtype |-> dtype2,
                 list |-> <<assign.val>>]
    IN  IF ~assign.ok THEN [ok |-> FALSE, more |-> FALSE, st |-> st, p |-> assign.p]
        ELSE [ok |-> TRUE, more |-> TRUE, st |-> replace_prev(st, decl), p |-> assign.p]

\* the data port from its declaration assignment on
data_port(p, st, dir, net, dtype, dirsp) ==
    LET assign == call("parse_decl_assign", p, <<>>)
        inherit == dir = <<>> /\ net = <<>> /\ dtype = <<>>
        dir2 == IF dir # <<>> THEN dir[1] ELSE default_dir(st.prev)
        net2 == IF net # <<>> THEN net[1] ELSE default_net(dir2, dtype)
        dtype2 == IF dtype # <<>> THEN dtype[1]
                  ELSE DataTypeOf("Implicit", "", "Unsigned", <<>>, dirsp)
        decl == [tag |-> "Data", dir |-> dir2, net |-> net2, dtype |-> dtype2,
                 list |-> <<assign.val>>]
    IN  IF ~assign.ok THEN [ok |-> FALSE, more |-> FALSE, st |-> st, p |-> assign.p]
        ELSE IF inherit /\ st.prev = <<>> THEN [ok |-> FALSE, more |-> FALSE, st |-> st,
                                                p |-> [assign.p EXCEPT !.panic = TRUE]]
        ELSE IF inherit /\ st.prev[1].tag \in {"Data", "Interface"}
        THEN [ok |-> TRUE, more |-> TRUE,
              st |-> [st EXCEPT !.prev[1].list = Append(@, assign.val)], p |-> assign.p]
        ELSE [ok |-> TRUE, more |-> TRUE, st |-> replace_prev(st, decl), p |-> assign.p]

\* the closure parse_port_list gives to parse_comma_list_unit: st holds the
\* captured ansi, prev and vec
port_decl(p, st) ==
    LET dirsp == peek(p).span
        dir == call("parse_port_dir", p, <<>>)
        nxt == peek(dir.p)
        dot == call("consume_if_op", dir.p, "Dot")
        var == call("consume_if_kw", dir.p, "var")
        net == IF var.val # <<>> THEN <<"Variable">> ELSE <<>>
        dtype == call("parse_data_type", var.p, TRUE)
        hd == call("interface_header", dtype.p, <<>>)
        stop(s, q) == [ok |-> TRUE, more |-> FALSE, st |-> s, p |-> q]
    IN  IF call("consume_if_eof", p, <<>>).val # <<>>
        THEN stop(st, call("consume_if_eof", p, <<>>).p)
        ELSE IF st.prev = <<>> /\ nxt.kind = "DelimGroup" /\ nxt.val = "Brace"
        THEN stop([st EXCEPT !.ansi = FALSE], dir.p)
        ELSE IF dot.val # <<>> THEN call("explicit_port", dot.p, <<st, dir.val>>)
        ELSE IF ~dtype.ok THEN [ok |-> FALSE, more |-> FALSE, st |-> st, p |-> dtype.p]
        ELSE IF net = <<>> /\ dtype.val = <<>>
        THEN IF ~hd.ok THEN [ok |-> FALSE, more |-> FALSE, st |-> st, p |-> hd.p]
             ELSE IF hd.val # <<>> THEN call("interface_port", hd.p, <<st, dir.val, dirsp, hd.val[1]>>)
             ELSE IF dir.val = <<>> /\ st.prev = <<>>
             THEN stop([st EXCEPT !.ansi = FALSE], hd.p)
             ELSE call("data_port", hd.p, <<st, dir.val, net, dtype.val, dirsp>>)
        ELSE call("data_port", dtype.p, <<st, dir.val, net, dtype.val, dirsp>>)

port_list_body_NoAnsiCheck(p) ==
    LET eof == call("consume_if_eof", p, <<>>)
        r == call("parse_comma_list_unit", p,
                  <<"port_decl", [ansi |-> TRUE, prev |-> <<>>, vec |-> <<>>], TRUE, FALSE>>)
    IN  IF eof.val # <<>> THEN Ok(<<>>, eof.p)
        ELSE IF ~r.ok THEN Err(r.p)
        ELSE Ok(r.val.vec \o r.val.prev, r.p)

\* the closure parse_port_list gives to parse_if_delim
port_list_body(p) ==
    LET wild == call("consume_if_op", p, "WildPattern")
        f == call("report_span", wild.p,
                  <<"Fatal", "(.*) port declaration is not supported",
                    wild.val[1].span>>)
        eof == call("consume_if_eof", p, <<>>)
        r == call("parse_comma_list_unit", p,
                  <<"port_decl", [ansi |-> TRUE, prev |-> <<>>, vec |-> <<>>], TRUE, FALSE>>)
    IN  IF wild.val # <<>> THEN (IF ~f.ok THEN Err(f.p) ELSE Unreachable(f.p))
        ELSE IF eof.val # <<>> THEN Ok(<<>>, eof.p)
        ELSE IF ~r.ok THEN Err(r.p)
        ELSE IF ~r.val.ansi
        THEN call("NotFinished", r.p, "non-ANSI port declaration is not yet supported")
        ELSE Ok(r.val.vec \o r.val.prev, r.p)

\* Parser::parse_port_list
parse_port_list(p) ==
    LET g == call("consume_if_delim", p, "Paren")
        r == delim_group(g.p.lexer,
                         call("port_list_body", delim_group_enter(g.p, g.val[1].tokens), <<>>))
    IN  IF g.val = <<>> THEN Ok(<<>>, g.p)
        ELSE IF ~r.ok THEN Err(r.p)
        ELSE Ok(<<r.val>>, r.p)

(***************************************************************************)
(* Items and the compilation unit.                                         *)
(***************************************************************************)
\* Parser::parse_lvalue
parse_lvalue(p) ==
    LET id == call("Parser_expect_id", p, <<>>)
    IN  IF ~id.ok THEN Err(id.p) ELSE Ok(<<>>, id.p)

\* Parser::parse_var_assign
parse_var_assign(p) ==
    LET l == call("parse_lvalue", p, <<>>)
        eq == call("expect_op", l.p, "Assign")
        e == call("parse_unwrap", eq.p, <<>>)
    IN  IF ~l.ok THEN Err(l.p)
        ELSE IF ~eq.ok THEN Err(eq.p)
        ELSE IF ~e.ok THEN Err(e.p)
        ELSE Ok(<<>>, e.p)

\* the closure parse_continuous_assign gives to parse_comma_list:
\* Ok(Some(this.parse_var_assign()?))
var_assign_elem(p) ==
    LET a == call("parse_var_assign", p, <<>>)
    IN  IF ~a.ok THEN Err(a.p) ELSE Ok(<<"()">>, a.p)

\* Parser::parse_continuous_assign
parse_continuous_assign(p) ==
    LET r == call("parse_comma_list", consume(p).p, <<"var_assign_elem", FALSE, FALSE>>)
    IN  IF ~r.ok THEN Err(r.p) ELSE Ok("ModuleDecl", r.p)


\* the closure parse_module gives to parse_delim; the println! of the header
\* is the line appended to out
module_body(p) ==
    LET lifetime == call("parse_lifetime", p, <<>>)
        name == call("Parser_expect_id", lifetime.p, <<>>)
        param == call("parse_param_port_list", name.p, <<>>)
        port == call("parse_port_list", param.p, <<>>)
        semi == call("expect_op", port.p, "Semicolon")
        its == call("parse_list", semi.p, "parse_item")
    IN  IF ~name.ok THEN Err(name.p)
        ELSE IF ~param.ok THEN Err(param.p)
        ELSE IF ~port.ok THEN Err(port.p)
        ELSE IF ~semi.ok THEN Err(semi.p)
        ELSE IF ~its.ok THEN Err(its.p)
        ELSE Ok("ModuleDecl",
                [its.p EXCEPT !.out = Append(@, [lifetime |-> lifetime.val,
                                                 name |-> name.val,
                                                 param |-> param.val,
                                                 port |-> port.val])])

\* Parser::parse_module
parse_module(p) ==
    LET d == call("Parser_expect_delim", p, "Module")
    IN  IF ~d.ok THEN Err(d.p)
        ELSE delim_group(d.p.lexer, call("module_body", delim_group_enter(d.p, d.val.tokens), <<>>))

\* Parser::parse_item
parse_item(p) ==
    LET t == peek(p)
        some(r) == IF ~r.ok THEN Err(r.p) ELSE Ok(<<r.val>>, r.p)
    IN  IF t.kind = "Eof" THEN Ok(<<>>, p)
        ELSE IF t.kind = "DelimGroup" /\ t.val = "Module" THEN some(call("parse_module", p, <<>>))
        ELSE IF t.kind = "Keyword" /\ t.val = "assign"
        THEN some(call("parse_continuous_assign", p, <<>>))
        ELSE IF t.kind = "Keyword" /\ t.val = "extern"
        THEN call("NotFinished", p, "extern is not supported")
        ELSE call("NotFinished", p, "not implemented")

\* the method or closure named f, invoked on the parser p with the other
\* arguments x: self.f(x..), this.f(x..) and the calls f(self), f(self, item)
\* of the callbacks of the list methods
call(f, p, x) ==
    CASE f = "consume_if_delim" -> consume_if_delim(p, x)
      [] f = "consume_if_eof" -> consume_if_eof(p)
      [] f = "consume_if_id" -> consume_if_id(p)
      [] f = "consume_if_kw" -> consume_if_kw(p, x)
      [] f = "consume_if_op" -> consume_if_op(p, x)
      [] f = "Parser_expect_delim" -> Parser_expect_delim(p, x)
      [] f = "expect_eof" -> expect_eof(p)
      [] f = "Parser_expect_id" -> Parser_expect_id(p)
      [] f = "expect_op" -> expect_op(p, x)
      [] f = "report_span" -> report_span(p, x[1], x[2], x[3])
      [] f = "NotFinished" -> NotFinished(p, x)
      [] f = "parse_port_dir" -> parse_port_dir(p)
      [] f = "parse_lifetime" -> parse_lifetime(p)
      [] f = "parse_signing" -> parse_signing(p)
      [] f = "parse_scope" -> parse_scope(p)
      [] f = "parse_hier_id" -> parse_hier_id(p)
      [] f = "parse_unwrap" -> parse_unwrap(p)
      [] f = "parse_expr_or_type" -> parse_expr_or_type(p)
      [] f = "parse_single_select" -> parse_single_select(p)
      [] f = "parse_select" -> parse_select(p, x)
      [] f = "parse_primary_nocast" -> parse_primary_nocast(p)
      [] f = "parse_expr" -> parse_expr(p)
      [] f = "parse_list" -> parse_list(p, x)
      [] f = "parse_comma_list" -> parse_comma_list(p, x[1], x[2], x[3])
      [] f = "parse_comma_list_unit" -> parse_comma_list_unit(p, x[1], x[2], x[3], x[4])
      [] f = "check_list" -> check_list(p, x[1], x[2])
      [] f = "parse_dim" -> parse_dim(p)
      [] f = "check_unpacked_dim" -> check_unpacked_dim(p, x)
      [] f = "parse_pack_dim" -> parse_pack_dim(p)
      [] f = "parse_data_type" -> parse_data_type(p, x)
      [] f = "assign_head" -> assign_head(p)
      [] f = "parse_param_assign" -> parse_param_assign(p)
      [] f = "parse_decl_assign" -> parse_decl_assign(p)
      [] f = "param_port_decl" -> param_port_decl(p, x)
      [] f = "parse_param_port_list" -> parse_param_port_list(p)
      [] f = "interface_header" -> interface_header(p)
      [] f = "explicit_port" -> explicit_port(p, x[1], x[2])
      [] f = "interface_port" -> interface_port(p, x[1], x[2], x[3], x[4])
      [] f = "data_port" -> data_port(p, x[1], x[2], x[3], x[4], x[5])
      [] f = "port_decl" -> port_decl(p, x)
      [] f = "port_list_body" -> port_list_body(p)
      [] f = "parse_port_list" -> parse_port_list(p)
      [] f = "parse_lvalue" -> parse_lvalue(p)
      [] f = "parse_var_assign" -> parse_var_assign(p)
      [] f = "var_assign_elem" -> var_assign_elem(p)
      [] f = "parse_continuous_assign" -> parse_continuous_assign(p)
      [] f = "module_body" -> module_body(p)
      [] f = "parse_module" -> parse_module(p)
      [] f = "parse_item" -> parse_item(p)

\* Parser::parse_source
parse_source(p) == call("parse_list", p, "parse_item")

(***************************************************************************)
(* The parser as a state machine.  The goal is the method called on a new  *)
(* Parser over the stream psrc: parse_source, one step for each turn of    *)
(* its parse_list loop (parsed is the vec of the loop), or parse_port_list *)
(* or parse_param_port_list as a module header calls them, in one step.    *)
(* result is <<>> until the method returns.                                *)
(***************************************************************************)
\* most elements of a generated port list
MaxPorts == 3
\* most elements of a generated parameter port list
MaxParams == 3
\* most items of a generated compilation unit
MaxTop == 3

\* the tokens of the elements elems, a comma between two of them
RECURSIVE CommaJoin(_)
CommaJoin(elems) ==
    IF elems = <<>> THEN <<>>
    ELSE IF Len(elems) = 1 THEN elems[1]
    ELSE elems[1] \o <<TkOp("Comma")>> \o CommaJoin(Tail(elems))

PortNames == <<"a", "b", "c", "d">>

PortShapes ==
    {"x", "input x", "output x", "inout x", "ref x", "input logic x", "output logic x",
     "var x", "logic x", "signed x", "{}", "input {}", "x 8", "x = 8", "x = {}"}

\* explicit ports and interface ports, with and without a direction, and the
\* data ports that follow them
MixedPortShapes ==
    {".x(y)", "output .x(y)", "interface x", "foo x", "interface.m x", "foo.m x",
     "input interface x", "ref foo.m x", "input x", "logic x", "x"}

\* the tokens of a port list element of shape s declaring name n
PortElem(s, n) ==
    CASE s = "x" -> <<TkId(n)>>
      [] s = "input x" -> <<TkKw("input"), TkId(n)>>
      [] s = "output x" -> <<TkKw("output"), TkId(n)>>
      [] s = "inout x" -> <<TkKw("inout"), TkId(n)>>
      [] s = "ref x" -> <<TkKw("ref"), TkId(n)>>
      [] s = "input logic x" -> <<TkKw("input"), TkKw("logic"), TkId(n)>>
      [] s = "output logic x" -> <<TkKw("output"), TkKw("logic"), TkId(n)>>
      [] s = "var x" -> <<TkKw("var"), TkId(n)>>
      [] s = "logic x" -> <<TkKw("logic"), TkId(n)>>
      [] s = "signed x" -> <<TkKw("signed"), TkId(n)>>
      [] s = "{}" -> <<TkGroup("Brace", <<TkId(n)>>)>>
      [] s = "input {}" -> <<TkKw("input"), TkGroup("Brace", <<TkId(n)>>)>>
      [] s = ".x(y)" -> <<TkOp("Dot"), TkId(n), TkGroup("Paren", <<TkId("y")>>)>>
      [] s = "interface x" -> <<TkKw("interface"), TkId(n)>>
      [] s = "foo x" -> <<TkId("foo"), TkId(n)>>
      [] s = "x 8" -> <<TkId(n), TkLit>>
      [] s = "x = 8" -> <<TkId(n), TkOp("Assign"), TkLit>>
      [] s = "output .x(y)" ->
            <<TkKw("output"), TkOp("Dot"), TkId(n), TkGroup("Paren", <<TkId("y")>>)>>
      [] s = "interface.m x" -> <<TkKw("interface"), TkOp("Dot"), TkId("m"), TkId(n)>>
      [] s = "foo.m x" -> <<TkId("foo"), TkOp("Dot"), TkId("m"), TkId(n)>>
      [] s = "input interface x" -> <<TkKw("input"), TkKw("interface"), TkId(n)>>
      [] s = "ref foo.m x" -> <<TkKw("ref"), TkId("foo"), TkOp("Dot"), TkId("m"), TkId(n)>>
      [] OTHER -> <<TkId(n), TkOp("Assign"), TkGroup("Brace", <<>>)>>

\* the port list ( e1, .., ek ) of the shapes
PortListTokens(shapes) ==
    TkGroup("Paren", CommaJoin([i \in 1..Len(shapes) |-> PortElem(shapes[i], PortNames[i])]))

\* a module header from its port list on: no list, ( .* ), or a list of at
\* most MaxPorts elements; the semicolon follows
PortInput(s) ==
    \/ s = Place(<<TkOp("Semicolon")>>, <<>>)
    \/ s = Place(<<TkGroup("Paren", <<TkOp("WildPattern")>>), TkOp("Semicolon")>>, <<>>)
    \/ \E k \in 0..MaxPorts : \E shapes \in [1..k -> PortShapes] :
           s = Place(<<PortListTokens(shapes), TkOp("Semicolon")>>, <<>>)
    \/ \E k \in 1..MaxPorts : \E shapes \in [1..k -> MixedPortShapes] :
           s = Place(<<PortListTokens(shapes), TkOp("Semicolon")>>, <<>>)

ParamNames == <<"W", "T", "D", "E">>

ParamShapes ==
    {"x", "parameter x", "localparam x", "type x", "logic x", "parameter logic x",
     "localparam logic x", "parameter type x", "parameter int x = 8",
     "parameter int(id) x = 8", "localparam int x = 4", "type x = logic", "x = 8", "x []"}

\* the tokens of a parameter port list element of shape s declaring name n;
\* the lexer is not part of the sources, so int is taken both as a keyword
\* and as an identifier
ParamElem(s, n) ==
    CASE s = "x" -> <<TkId(n)>>
      [] s = "parameter x" -> <<TkKw("parameter"), TkId(n)>>
      [] s = "localparam x" -> <<TkKw("localparam"), TkId(n)>>
      [] s = "type x" -> <<TkKw("type"), TkId(n)>>
      [] s = "logic x" -> <<TkKw("logic"), TkId(n)>>
      [] s = "parameter logic x" -> <<TkKw("parameter"), TkKw("logic"), TkId(n)>>
      [] s = "localparam logic x" -> <<TkKw("localparam"), TkKw("logic"), TkId(n)>>
      [] s = "parameter type x" -> <<TkKw("parameter"), TkKw("type"), TkId(n)>>
      [] s = "parameter int x = 8" ->
            <<TkKw("parameter"), TkKw("int"), TkId(n), TkOp("Assign"), TkLit>>
      [] s = "parameter int(id) x = 8" ->
            <<TkKw("parameter"), TkId("int"), TkId(n), TkOp("Assign"), TkLit>>
      [] s = "localparam int x = 4" ->
            <<TkKw("localparam"), TkKw("int"), TkId(n), TkOp("Assign"), TkLit>>
      [] s = "type x = logic" -> <<TkKw("type"), TkId(n), TkOp("Assign"), TkKw("logic")>>
      [] s = "x = 8" -> <<TkId(n), TkOp("Assign"), TkLit>>
      [] OTHER -> <<TkId(n), TkGroup("Bracket", <<>>)>>

\* the parameter port list #( e1, .., ek ) of the shapes
ParamListTokens(shapes) ==
    <<TkOp("Hash"),
      TkGroup("Paren", CommaJoin([i \in 1..Len(shapes) |-> ParamElem(shapes[i], ParamNames[i])]))>>

\* a module header from its parameter port list on: no list, or a list of
\* at most MaxParams elements; the semicolon follows
ParamInput(s) ==
    \/ s = Place(<<TkOp("Semicolon")>>, <<>>)
    \/ \E k \in 0..MaxParams : \E shapes \in [1..k -> ParamShapes] :
           s = Place(ParamListTokens(shapes) \o <<TkOp("Semicolon")>>, <<>>)

\* module m <header> ; <items> endmodule
ModuleTokens(header, body) ==
    <<TkGroup("Module", <<TkId("m")>> \o header \o <<TkOp("Semicolon")>> \o body)>>

TopShapes ==
    {"module", "module ports", "module non-ANSI", "module params", "module extra",
     "module nested", "module no name", "module in module extern", "assign",
     "assign no =", "assign concat", "assign list", "extern", "stray"}

\* the tokens of an item of shape s
TopItem(s) ==
    CASE s = "module" -> ModuleTokens(<<>>, <<>>)
      [] s = "module ports" ->
            ModuleTokens(<<PortListTokens(<<"input logic x", "x", "output x">>)>>, <<>>)
      [] s = "module non-ANSI" -> ModuleTokens(<<PortListTokens(<<"{}">>)>>, <<>>)
      [] s = "module params" ->
            ModuleTokens(ParamListTokens(<<"parameter logic x", "x = 8">>), <<>>)
      [] s = "module extra" -> ModuleTokens(<<PortListTokens(<<"input x", "x 8">>)>>, <<>>)
      [] s = "module nested" ->
            ModuleTokens(<<>>, ModuleTokens(<<>>, <<TkKw("assign"), TkId("a"),
                                                    TkOp("Assign"), TkLit>>))
      [] s = "module no name" -> <<TkGroup("Module", <<TkOp("Semicolon")>>)>>
      [] s = "module in module extern" ->
            ModuleTokens(<<>>, ModuleTokens(<<>>, <<TkKw("extern")>>) \o <<TkId("b")>>)
      [] s = "assign" -> <<TkKw("assign"), TkId("a"), TkOp("Assign"), TkLit>>
      [] s = "assign no =" -> <<TkKw("assign"), TkId("a"), TkLit>>
      [] s = "assign concat" ->
            <<TkKw("assign"), TkId("a"), TkOp("Assign"), TkGroup("Brace", <<>>)>>
      [] s = "assign list" ->
            <<TkKw("assign"), TkId("a"), TkOp("Assign"), TkId("b"), TkOp("Comma"),
              TkId("c"), TkOp("Assign"), TkLit>>
      [] s = "extern" -> <<TkKw("extern"), TkGroup("Module", <<>>)>>
      [] OTHER -> <<TkId("a"), TkOp("Semicolon")>>

\* a compilation unit of at most MaxTop items
SourceInput(s) ==
    \E k \in 0..MaxTop : \E shapes \in [1..k -> TopShapes] :
        s = Place(Concat([i \in 1..k |-> TopItem(shapes[i])]), <<>>)

InitParser ==
    /\ goal \in {"source", "ports", "params"}
    /\ CASE goal = "source" -> SourceInput(psrc)
         [] goal = "ports" -> PortInput(psrc)
         [] OTHER -> ParamInput(psrc)
    /\ args = <<>>
    /\ parser = NewParser(psrc)
    /\ parsed = <<>>
    /\ result = <<>>
    /\ rpc = "ready"
    /\ PPIdle
    /\ TpeIdle

\* the state a call that returned r leaves
MethodReturns(r) ==
    /\ parser' = r.p
    /\ result' = <<[ok |-> r.ok, val |-> r.val]>>
    /\ rpc' = IF r.p.panic THEN "panic" ELSE IF r.ok THEN "done" ELSE "err"

\* a turn of the loop of parse_source in which parse_item returns r, an item
ItemReturns(r) ==
    /\ r.ok /\ r.val # <<>>
    /\ parser' = r.p
    /\ parsed' = Append(parsed, r.val[1])
    /\ UNCHANGED <<result, rpc>>

\* the turn in which parse_item returns r, None: parse_source returns the list
NoneReturns(r) ==
    /\ r.ok /\ r.val = <<>>
    /\ MethodReturns(Ok(parsed, r.p))
    /\ UNCHANGED parsed

\* the turn in which parse_item returns r, Err: parse_source returns it, the
\* list is dropped
ErrReturns(r) ==
    /\ ~r.ok
    /\ MethodReturns(Err(r.p))
    /\ parsed' = <<>>

ParseItem ==
    /\ goal = "source" /\ rpc = "ready"
    /\ ItemReturns(call("parse_item", parser, <<>>))
    /\ UNCHANGED <<psrc, goal, args>>
    /\ UNCHANGED <<ppvars, tpevars>>

ParseEnd ==
    /\ goal = "source" /\ rpc = "ready"
    /\ NoneReturns(call("parse_item", parser, <<>>))
    /\ UNCHANGED <<psrc, goal, args>>
    /\ UNCHANGED <<ppvars, tpevars>>

ParseAbort ==
    /\ goal = "source" /\ rpc = "ready"
    /\ ErrReturns(call("parse_item", parser, <<>>))
    /\ UNCHANGED <<psrc, goal, args>>
    /\ UNCHANGED <<ppvars, tpevars>>

\* the call this.parse_port_list() of parse_module
ParsePortList ==
    /\ goal = "ports" /\ rpc = "ready"
    /\ MethodReturns(call("parse_port_list", parser, <<>>))
    /\ UNCHANGED <<psrc, goal, args, parsed>>
    /\ UNCHANGED <<ppvars, tpevars>>

\* the call this.parse_param_port_list() of parse_module
ParseParamPortList ==
    /\ goal = "params" /\ rpc = "ready"
    /\ MethodReturns(call("parse_param_port_list", parser, <<>>))
    /\ UNCHANGED <<psrc, goal, args, parsed>>
    /\ UNCHANGED <<ppvars, tpevars>>

NextParser ==
    \/ ParseItem
    \/ ParseEnd
    \/ ParseAbort
    \/ ParsePortList
    \/ ParseParamPortList

SpecParser == InitParser /\ [][NextParser]_vars

(***************************************************************************)
(* Single calls of the methods of the parser on short token streams.       *)
(***************************************************************************)
\* most bracket groups in a row
MaxDims == 3
\* longest stream of scope tokens
MaxToks == 4
\* longest stream an expect method is called on
MaxExpect == 2

DimShapes == {"[]", "[8:0]", "[8]", "[$]", "[$:8]", "[*]", "[logic]"}

PackedShapes == {"[]", "[8:0]", "[8]", "[logic]"}

\* the bracket group of shape s
DimGroup(s) ==
    TkGroup("Bracket",
        CASE s = "[]" -> <<>>
          [] s = "[8:0]" -> <<TkLit, TkOp("Colon"), TkLit>>
          [] s = "[8]" -> <<TkLit>>
          [] s = "[$]" -> <<TkOp("Dollar")>>
          [] s = "[$:8]" -> <<TkOp("Dollar"), TkOp("Colon"), TkLit>>
          [] s = "[*]" -> <<TkOp("Mul")>>
          [] OTHER -> <<TkKw("logic")>>)

DimKinds == {"Value", "Range", "Queue", "Assoc", "AssocWild", "Unsized"}

DataTypeHeads ==
    {<<>>, <<TkKw("signed")>>, <<TkKw("unsigned")>>, <<TkKw("logic")>>,
     <<TkKw("reg"), TkKw("signed")>>, <<TkId("a")>>, <<TkOp("Semicolon")>>, <<TkLit>>,
     <<TkKw("type")>>, <<TkGroup("Paren", <<>>)>>}

ScopeAlphabet ==
    {TkKw("local"), TkKw("$unit"), TkId("a"), TkOp("ScopeSep"), TkOp("Hash"),
     TkGroup("Paren", <<>>), TkOp("Semicolon")}

ExpectAlphabet ==
    {TkId("a"), TkOp("Semicolon"), TkOp("Assign"), TkKw("logic"),
     TkGroup("Paren", <<TkId("a")>>), TkGroup("Bracket", <<>>)}

\* the streams and arguments the method named g is called on
MethodInput(g, s, a) ==
    CASE g = "parse_pack_dim" ->
            /\ a = <<>>
            /\ \E k \in 0..MaxDims : \E shapes \in [1..k -> DimShapes] :
               \E tail \in {<<>>, <<TkId("x")>>} :
                  s = Place([i \in 1..k |-> DimGroup(shapes[i])] \o tail, <<>>)
      [] g = "parse_decl_assign" ->
            /\ a = <<>>
            /\ \E k \in 0..MaxDims : \E shapes \in [1..k -> DimShapes] :
               \E tail \in {<<>>, <<TkOp("Assign"), TkLit>>, <<TkId("y"), DimGroup("[$]")>>} :
                  s = Place(<<TkId("x")>> \o [i \in 1..k |-> DimGroup(shapes[i])] \o tail, <<>>)
      [] g = "check_unpacked_dim" ->
            /\ s = <<>>
            /\ \E k \in DimKinds : a = <<[DimOf(k, <<>>, <<>>) EXCEPT !.span = <<1>>]>>
      [] g = "parse_data_type" ->
            /\ a \in {<<TRUE>>, <<FALSE>>}
            /\ \E head \in DataTypeHeads :
               \E k \in 0..MaxDims : \E shapes \in [1..k -> PackedShapes] :
               \E tail \in {<<>>, <<TkId("x")>>} :
                  s = Place(head \o [i \in 1..k |-> DimGroup(shapes[i])] \o tail, <<>>)
      [] g = "parse_scope" ->
            /\ a = <<>>
            /\ \E k \in 0..MaxToks : \E toks \in [1..k -> ScopeAlphabet] : s = Place(toks, <<>>)
      [] g = "expect_id" ->
            /\ a = <<>>
            /\ \E k \in 0..MaxExpect : \E toks \in [1..k -> ExpectAlphabet] : s = Place(toks, <<>>)
      [] g = "expect_op" ->
            /\ a \in {<<"Semicolon">>, <<"Assign">>}
            /\ \E k \in 0..MaxExpect : \E toks \in [1..k -> ExpectAlphabet] : s = Place(toks, <<>>)
      [] g = "expect_delim" ->
            /\ a \in {<<"Paren">>, <<"Bracket">>}
            /\ \E k \in 0..MaxExpect : \E toks \in [1..k -> ExpectAlphabet] : s = Place(toks, <<>>)

Methods ==
    {"parse_pack_dim", "parse_decl_assign", "check_unpacked_dim", "parse_data_type",
     "parse_scope", "expect_id", "expect_op", "expect_delim"}

InitMethods ==
    /\ goal \in Methods
    /\ MethodInput(goal, psrc, args)
    /\ parser = NewParser(psrc)
    /\ parsed = <<>>
    /\ result = <<>>
    /\ rpc = "ready"
    /\ PPIdle
    /\ TpeIdle

\* the call self.parse_pack_dim()
ParsePackDim ==
    /\ goal = "parse_pack_dim" /\ rpc = "ready"
    /\ MethodReturns(call("parse_pack_dim", parser, <<>>))
    /\ UNCHANGED <<psrc, goal, args, parsed>>
    /\ UNCHANGED <<ppvars, tpevars>>

\* the call self.parse_decl_assign()
ParseDeclAssign ==
    /\ goal = "parse_decl_assign" /\ rpc = "ready"
    /\ MethodReturns(call("parse_decl_assign", parser, <<>>))
    /\ UNCHANGED <<psrc, goal, args, parsed>>
    /\ UNCHANGED <<ppvars, tpevars>>

\* the call self.check_unpacked_dim(dim)
CheckUnpackedDim ==
    /\ goal = "check_unpacked_dim" /\ rpc = "ready"
    /\ MethodReturns(call("check_unpacked_dim", parser, args[1]))
    /\ UNCHANGED <<psrc, goal, args, parsed>>
    /\ UNCHANGED <<ppvars, tpevars>>

\* the call self.parse_data_type(implicit)
ParseDataType ==
    /\ goal = "parse_data_type" /\ rpc = "ready"
    /\ MethodReturns(call("parse_data_type", parser, args[1]))
    /\ UNCHANGED <<psrc, goal, args, parsed>>
    /\ UNCHANGED <<ppvars, tpevars>>

\* the call self.parse_scope()
ParseScope ==
    /\ goal = "parse_scope" /\ rpc = "ready"
    /\ MethodReturns(call("parse_scope", parser, <<>>))
    /\ UNCHANGED <<psrc, goal, args, parsed>>
    /\ UNCHANGED <<ppvars, tpevars>>

\* the call self.expect_id()
ExpectId ==
    /\ goal = "expect_id" /\ rpc = "ready"
    /\ MethodReturns(call("Parser_expect_id", parser, <<>>))
    /\ UNCHANGED <<psrc, goal, args, parsed>>
    /\ UNCHANGED <<ppvars, tpevars>>

\* the call self.expect_op(op)
ExpectOp ==
    /\ goal = "expect_op" /\ rpc = "ready"
    /\ MethodReturns(call("expect_op", parser, args[1]))
    /\ UNCHANGED <<psrc, goal, args, parsed>>
    /\ UNCHANGED <<ppvars, tpevars>>

\* the call self.expect_delim(delim)
ExpectDelim ==
    /\ goal = "expect_delim" /\ rpc = "ready"
    /\ MethodReturns(call("Parser_expect_delim", parser, args[1]))
    /\ UNCHANGED <<psrc, goal, args, parsed>>
    /\ UNCHANGED <<ppvars, tpevars>>

NextMethods ==
    \/ ParsePackDim
    \/ ParseDeclAssign
    \/ CheckUnpackedDim
    \/ ParseDataType
    \/ ParseScope
    \/ ExpectId
    \/ ExpectOp
    \/ ExpectDelim

SpecMethods == InitMethods /\ [][NextMethods]_vars

(***************************************************************************)
(* number/mod.rs: the constructors of LogicVec.  A BigUint is a natural    *)
(* number and a BigInt an integer; the bit operations of BigUint are       *)
(* computed bit by bit.  An Int is known here by its constructor only: it  *)
(* is the record of the width and the value it was made from.              *)
(***************************************************************************)
\* widest vector constructed
MaxBits == 3
\* largest magnitude of a value a vector is constructed from
MaxMagnitude == 17

RECURSIVE Pow2(_)
\* BigUint::one() << n
Pow2(n) == IF n = 0 THEN 1 ELSE 2 * Pow2(n - 1)

RECURSIVE bits(_)
\* BigUint::bits: the number of bits of a, none for zero
bits(a) == IF a = 0 THEN 0 ELSE 1 + bits(a \div 2)

RECURSIVE BitAnd(_, _)
\* a & b on BigUint
BitAnd(a, b) ==
    IF a = 0 \/ b = 0 THEN 0
    ELSE 2 * BitAnd(a \div 2, b \div 2) + (IF a % 2 = 1 /\ b % 2 = 1 THEN 1 ELSE 0)

RECURSIVE BitXor(_, _)
\* a ^ b on BigUint
BitXor(a, b) ==
    IF a = 0 THEN b
    ELSE IF b = 0 THEN a
    ELSE 2 * BitXor(a \div 2, b \div 2) + (IF a % 2 # b % 2 THEN 1 ELSE 0)

\* Int::new
Int_new(width, value) == [width |-> width, value |-> value]

\* LogicVec::new_xz
new_xz(width, signed, value, xz) ==
    [signed |-> signed, value |-> Int_new(width, value), xz |-> Int_new(width, xz)]

\* wrong on purpose: the value is stored as it comes
LogicVec_new_NoMask(width, signed, value) ==
    new_xz(width, signed, value, 0)

\* LogicVec::new
LogicVec_new(width, signed, value) ==
    LET val == Pow2(width) - 1
    IN  new_xz(width, signed, IF width < bits(value) THEN BitAnd(value, val) ELSE value, 0)

\* wrong on purpose: the bits of a negative value are inverted and no one is
\* added
LogicVec_from_OnesComplement(width, signed, value) ==
    LET val == Pow2(width) - 1
    IN  LogicVec_new(width, signed,
                     IF value < 0 THEN BitXor(0 - value, val) ELSE value)

\* LogicVec::from
LogicVec_from(width, signed, value) ==
    LET val == Pow2(width) - 1
    IN  LogicVec_new(width, signed,
                     IF value < 0 THEN BitXor(0 - value, val) + 1 ELSE value)

\* a constructor is about to be called: LogicVec::new on a BigUint,
\* LogicVec::from on a BigInt
InitNumber ==
    /\ goal \in {"LogicVec::new", "LogicVec::from"}
    /\ \E width \in 0..MaxBits, signed \in BOOLEAN,
          value \in (IF goal = "LogicVec::new" THEN 0 ELSE 0 - MaxMagnitude)..MaxMagnitude :
          args = <<width, signed, value>>
    /\ psrc = <<>> /\ parser = NewParser(<<>>)
    /\ parsed = <<>>
    /\ result = <<>>
    /\ rpc = "ready"
    /\ PPIdle
    /\ TpeIdle

\* the call LogicVec::new(width, signed, value)
NewLogicVec ==
    /\ goal = "LogicVec::new" /\ rpc = "ready"
    /\ result' = <<LogicVec_new(args[1], args[2], args[3])>>
    /\ rpc' = "done"
    /\ UNCHANGED <<psrc, parser, goal, args, parsed>>
    /\ UNCHANGED <<ppvars, tpevars>>

\* the call LogicVec::from(width, signed, value)
FromBigInt ==
    /\ goal = "LogicVec::from" /\ rpc = "ready"
    /\ result' = <<LogicVec_from(args[1], args[2], args[3])>>
    /\ rpc' = "done"
    /\ UNCHANGED <<psrc, parser, goal, args, parsed>>
    /\ UNCHANGED <<ppvars, tpevars>>

NextNumber == NewLogicVec \/ FromBigInt

SpecNumber == InitNumber /\ [][NextNumber]_vars

C16_DelimGroup ==
    [][LET on_group ==
               /\ rpc = "ready" /\ parser.lexer # <<>>
               /\ peek(parser).kind = "DelimGroup"
               /\ \/ goal = "ports" /\ peek(parser).val = "Paren"
                  \/ goal = "source" /\ peek(parser).val = "Module"
           entered == delim_group_enter(consume(parser).p, peek(parser).tokens)
           ret == IF goal = "ports" THEN port_list_body(entered) ELSE module_body(entered)
           extra == IF ret.p.lexer = <<>> THEN <<>>
                    ELSE <<Diag("Error", "unexpected extra token", Head(ret.p.lexer).span)>>
       IN  on_group =>
             /\ entered.lexer = peek(parser).tokens
             /\ peek_n(entered, Len(entered.lexer)).kind = "Eof"
             /\ parser'.lexer = Tail(parser.lexer)
             /\ ret.ok => parser'.diag = ret.p.diag \o extra]_vars

\* C17: a diagnostic aborts the parse exactly when it is Fatal.  report_diag
\* returns Err for Fatal and Ok for Remark, Warning and Error.  While the
\* parse goes on no Fatal has been reported; a method that has returned has
\* returned Err exactly when a Fatal was reported, and then the Fatal is the
\* last diagnostic, nothing is returned with the Err, no item list is left,
\* and the stream stands where it stood when the Fatal was reported (at the
\* token the Fatal points to; just after it for the two Fatals reported on a
\* token already consumed).  With no Fatal, whatever else was reported, the
\* method returns Ok.  The turns of ParseItem, ParseEnd and ParseAbort add
\* up to the one call parse_source().
C17_FatalAborts ==
    LET fatals == {i \in 1..Len(parser.diag) : parser.diag[i].severity = "Fatal"}
        consumed_first == {"(.*) port declaration is not supported",
                           "class parameter scope is not yet supported"}
        whole == parse_source(NewParser(psrc))
    IN  /\ \A sev \in {"Remark", "Warning", "Error", "Fatal"} :
               report_diag(parser, Diag(sev, "", <<>>)).ok = (sev # "Fatal")
        /\ rpc # "panic"
        /\ rpc = "ready" => fatals = {}
        /\ rpc \in {"done", "err"} =>
               /\ result = <<[ok |-> fatals = {}, val |-> result[1].val]>>
               /\ (rpc = "done") = (fatals = {})
               /\ goal = "source" => result[1] = [ok |-> whole.ok, val |-> whole.val]
                                     /\ parser = whole.p
        /\ rpc = "err" =>
               /\ fatals = {Len(parser.diag)}
               /\ result[1].val = <<>> /\ parsed = <<>>
               /\ Last(parser.diag).msg \notin consumed_first
                      => peek(parser).span = Last(parser.diag).span

\* a compilation unit whose parse reported an Error, went on, and was then
\* aborted by a Fatal in a later item
C17_Witness ==
    /\ goal = "source" /\ rpc = "err"
    /\ Len(parser.diag) >= 2
    /\ parser.diag[1].severity = "Error"
    /\ parser.out # <<>>

RECURSIVE Elements(_)
\* the elements of a comma separated list: the tokens between its commas
Elements(toks) ==
    LET is_comma(t) == t.kind = "Operator" /\ t.val = "Comma"
        commas == {i \in 1..Len(toks) : is_comma(toks[i])}
        first == IF commas = {} THEN Len(toks) + 1
                 ELSE CHOOSE i \in commas : \A j \in commas : i <= j
    IN  IF toks = <<>> THEN <<>>
        ELSE IF commas = {} THEN <<toks>>
        ELSE <<SubSeq(toks, 1, first - 1)>> \o Elements(SubSeq(toks, first + 1, Len(toks)))

\* the port list ( input logic a, b, output c ) followed by a semicolon
PortExample ==
    Place(<<PortListTokens(<<"input logic x", "x", "output x">>), TkOp("Semicolon")>>, <<>>)

C19_NonAnsi ==
    LET fatal(t) == Diag("Fatal", "non-ANSI port declaration is not yet supported", t.span)
        is_brace(t) == t.kind = "DelimGroup" /\ t.val = "Brace"
        is_dir(t) == t.kind = "Keyword" /\ t.val \in {"input", "output", "inout", "ref"}
        non_ansi(toks) ==
            /\ toks # <<>>
            /\ \/ is_brace(toks[1])
               \/ Len(toks) >= 2 /\ is_dir(toks[1]) /\ is_brace(toks[2])
        the_brace(toks) == IF is_brace(toks[1]) THEN toks[1] ELSE toks[2]
        is_list(t) == t.kind = "DelimGroup" /\ t.val = "Paren"
        is_module(t) ==
            /\ t.kind = "DelimGroup" /\ t.val = "Module"
            /\ Len(t.tokens) >= 2 /\ t.tokens[1].kind = "Id"
            /\ is_list(t.tokens[2]) /\ non_ansi(t.tokens[2].tokens)
    IN  /\ ( /\ goal = "ports" /\ rpc # "ready"
             /\ psrc # <<>> /\ is_list(psrc[1]) /\ non_ansi(psrc[1].tokens) )
            => /\ rpc = "err"
               /\ result = <<[ok |-> FALSE, val |-> <<>>]>>
               /\ parser.diag = <<fatal(the_brace(psrc[1].tokens))>>
               /\ peek(parser) = the_brace(psrc[1].tokens)
        /\ goal = "source"
            => \A i \in 1..Len(psrc) :
                 is_module(psrc[i]) =>
                     LET r == parse_item(NewParser(<<psrc[i]>>))
                     IN  /\ ~r.ok /\ r.val = <<>> /\ ~r.p.panic
                         /\ r.p.diag = <<fatal(the_brace(psrc[i].tokens[2].tokens))>>
                         /\ r.p.out = <<>>

\* parse_port_list has returned Err on a port list that starts with a
\* direction keyword and a brace group
C19_Witness ==
    /\ goal = "ports" /\ rpc = "err"
    /\ Len(psrc[1].tokens) >= 2
    /\ psrc[1].tokens[1].kind = "Keyword"
    /\ psrc[1].tokens[2].kind = "DelimGroup" /\ psrc[1].tokens[2].val = "Brace"

\* the parameter port list #( parameter int W = 8, type T = logic,
\* localparam int D = 4 ), int being a keyword
ParamExample ==
    Place(ParamListTokens(<<"parameter int x = 8", "type x = logic", "localparam int x = 4">>)
          \o <<TkOp("Semicolon")>>, <<>>)

\* C20 (as claimed): in a parameter port list each element has the keyword
\* it restates, else that of the element before it (parameter for the
\* first), and the sort it restates (type gives Kind, a data type gives
\* Type(dt)), else that of the element before it; the ParamDecls returned
\* are the maximal runs of elements of the same keyword and sort, each with
\* the names of its run in source order, none empty.  For #( parameter int
\* W = 8, type T = logic, localparam int D = 4 ) they are (parameter,
\* Type(int), [W]), (parameter, Kind, [T]), (localparam, Type(int), [D]).
C20_ParamRuns ==
    LET elems == Elements(psrc[2].tokens)
        n == Len(elems)
        is_kw(t, set) == t.kind = "Keyword" /\ t.val \in set
        at(e, i) == IF i <= Len(e) THEN e[i] ELSE EofTok
        kw_at(e) == IF is_kw(e[1], {"parameter", "localparam"}) THEN 2 ELSE 1
        sort_of(e) ==
            LET i == kw_at(e)
            IN  IF is_kw(at(e, i), {"type"}) THEN <<"Kind", "">>
                ELSE IF is_kw(at(e, i), {"logic", "bit", "reg", "int"})
                        \/ (at(e, i).kind = "Id" /\ at(e, i + 1).kind = "Id")
                THEN <<"Type", at(e, i).val>>
                ELSE <<>>
        name_of(e) == at(e, kw_at(e) + (IF sort_of(e) = <<>> THEN 0 ELSE 1)).val
        RECURSIVE header(_)
        header(i) ==
            LET e == elems[i]
                prev == IF i = 1 THEN [kw |-> "parameter", sort |-> <<>>] ELSE header(i - 1)
            IN  [kw |-> IF kw_at(e) = 2 THEN e[1].val ELSE prev.kw,
                 sort |-> IF sort_of(e) # <<>> THEN sort_of(e) ELSE prev.sort]
        RECURSIVE runs(_, _)
        runs(i, acc) ==
            IF i > n THEN acc
            ELSE IF acc = <<>> \/ header(i) # header(i - 1)
            THEN runs(i + 1, Append(acc, <<i>>))
            ELSE runs(i + 1, [acc EXCEPT ![Len(acc)] = Append(@, i)])
        run == runs(1, <<>>)
        decls == result[1].val[1]
        names(d) == [j \in 1..Len(d.list) |-> d.list[j].name.name]
        sort_is(d, sort) ==
            IF sort = <<>> THEN d.ty = <<>>
            ELSE /\ d.ty # <<>> /\ d.ty[1].sort = sort[1]
                 /\ sort[1] = "Type" => d.ty[1].dt[1].kw = sort[2]
    IN  ( /\ goal = "params" /\ rpc # "ready"
          /\ Len(psrc) >= 2 /\ psrc[2].kind = "DelimGroup" )
        => /\ rpc = "done"
           /\ result[1].val # <<>>
           /\ Len(decls) = Len(run)
           /\ \A k \in 1..Len(decls) :
                /\ decls[k].list # <<>>
                /\ k <= Len(run) =>
                     /\ decls[k].kw = header(run[k][1]).kw
                     /\ sort_is(decls[k], header(run[k][1]).sort)
                     /\ names(decls[k]) = [j \in 1..Len(run[k]) |-> name_of(elems[run[k][j]])]
           /\ psrc = ParamExample =>
                /\ Len(decls) = 3
                /\ decls[1].kw = "parameter" /\ sort_is(decls[1], <<"Type", "int">>)
                /\ names(decls[1]) = <<"W">>
                /\ decls[2].kw = "parameter" /\ sort_is(decls[2], <<"Kind", "">>)
                /\ names(decls[2]) = <<"T">>
                /\ decls[3].kw = "localparam" /\ sort_is(decls[3], <<"Type", "int">>)
                /\ names(decls[3]) = <<"D">>


(***************************************************************************)
(* Reference reading of conditional compilation, used to state the claims  *)
(* about conditional chains.  It reads the input once, left to right, with *)
(* one frame per open conditional: plive (the conditional stands in an     *)
(* emitted region), live (the current branch is the selected one and plive *)
(* holds), any (a branch of the chain has been selected), els (the chain   *)
(* has had its `else).  It covers the inputs made of plain tokens, `define *)
(* lines of object-like macros and conditional directives; ok is FALSE on  *)
(* any other input.                                                        *)
(***************************************************************************)
RefInit ==
    [macs |-> {}, frames |-> <<>>, out |-> <<>>, errs |-> {}, ok |-> TRUE, depth |-> 0]

RefLive(frames) == frames = <<>> \/ Last(frames).live

\* index of the first NewLine/LineComment of s at or after i, Len(s) + 1 if none
RECURSIVE EolFrom(_, _)
EolFrom(s, i) == IF i > Len(s) \/ IsEol(s[i]) THEN i ELSE EolFrom(s, i + 1)

IsIdAt(s, i) == i <= Len(s) /\ s[i].kind = "Id"

RefTop(r, f) == [r EXCEPT !.frames = Append(Front(r.frames), f)]

RECURSIVE RefRun(_, _, _)
RefRun(s, i, r) ==
    IF i > Len(s) \/ ~r.ok THEN r
    ELSE LET t == s[i]
             live == RefLive(r.frames)
             top == Last(r.frames)
             bad == [r EXCEPT !.ok = FALSE]
         IN
         IF t.kind # "Directive"
         THEN RefRun(s, i + 1, IF live /\ ~IsEol(t) THEN [r EXCEPT !.out = Append(@, t)] ELSE r)
         ELSE IF t.name = "define"
         THEN IF ~live THEN RefRun(s, i + 1, r)
              ELSE IF /\ IsIdAt(s, i + 1) /\ ~is_directive(s[i + 1].name)
                      /\ i + 2 <= Len(s)
                      /\ ~(s[i + 2].kind = "OpenParen" /\ s[i + 2].span.start = s[i + 1].span.end)
                   THEN RefRun(s, EolFrom(s, i + 2) + 1, [r EXCEPT !.macs = @ \cup {s[i + 1].name}])
                   ELSE bad
         ELSE IF t.name \in {"ifdef", "ifndef"}
         THEN IF ~live
              THEN RefRun(s, i + 1,
                     [r EXCEPT !.frames = Append(@, [plive |-> FALSE, live |-> FALSE,
                                                     any |-> FALSE, els |-> FALSE]),
                               !.depth = IF Len(r.frames) + 1 > @ THEN Len(r.frames) + 1 ELSE @])
              ELSE IF IsIdAt(s, i + 1)
                   THEN LET c == ((s[i + 1].name \in r.macs) = (t.name = "ifdef"))
                        IN  RefRun(s, i + 2,
                              [r EXCEPT !.frames = Append(@, [plive |-> TRUE, live |-> c,
                                                              any |-> c, els |-> FALSE]),
                                        !.depth = IF Len(r.frames) + 1 > @
                                                  THEN Len(r.frames) + 1 ELSE @])
                   ELSE bad
         ELSE IF t.name = "elsif"
         THEN IF r.frames = <<>> THEN bad
              ELSE IF top.els
              THEN RefRun(s, i + 1, [RefTop(r, [top EXCEPT !.live = FALSE])
                                       EXCEPT !.errs = @ \cup {t.span}])
              ELSE IF ~top.plive \/ top.any
              THEN RefRun(s, i + 1, RefTop(r, [top EXCEPT !.live = FALSE]))
              ELSE IF IsIdAt(s, i + 1)
                   THEN LET c == s[i + 1].name \in r.macs
                        IN  RefRun(s, i + 2, RefTop(r, [top EXCEPT !.live = c, !.any = c]))
                   ELSE bad
         ELSE IF t.name = "else"
         THEN IF r.frames = <<>> THEN bad
              ELSE IF top.els
              THEN RefRun(s, i + 1, [RefTop(r, [top EXCEPT !.live = FALSE])
                                       EXCEPT !.errs = @ \cup {t.span}])
              ELSE RefRun(s, i + 1,
                     RefTop(r, [top EXCEPT !.live = top.plive /\ ~top.any,
                                           !.any = TRUE, !.els = TRUE]))
         ELSE IF t.name = "endif"
         THEN IF r.frames = <<>> THEN bad
              ELSE RefRun(s, i + 1, [r EXCEPT !.frames = Front(@)])
         ELSE bad

Ref(s) == RefRun(s, 1, RefInit)

\* the spans of the "else/elsif after an else" errors reported so far
ElseErrors ==
    {diag[k].span : k \in {j \in DOMAIN diag :
        diag[j].msg \in {"else after an else", "elsif after an else"}}}

(***************************************************************************)
(* Claims about the preprocessor (checked under SpecPP).                   *)
(***************************************************************************)
NoDirective(s) == \A i \in DOMAIN s : s[i].kind # "Directive"

\* the input with the NewLine and LineComment tokens removed
Stripped(s) == SelectSeq(s, LAMBDA t : ~IsEol(t))

\* C1: the output deque never holds a NewLine, a LineComment or a Directive
\* token, whatever the input (directives in macro bodies, input ending inside
\* an open conditional included).
C1_OutputClean ==
    \A i \in DOMAIN vec : vec[i].kind \notin {"NewLine", "LineComment", "Directive"}

\* pp returned a non-empty output for an input that ends inside an open
\* conditional, has a newline and has defined a macro whose body holds a directive
C1_Witness ==
    /\ pc = "done" /\ vec # <<>> /\ branch_stack # <<>>
    /\ \E i \in DOMAIN src : IsEol(src[i])
    /\ \E n \in DOMAIN macros :
          \E i \in DOMAIN macros[n].list : macros[n].list[i].kind = "Directive"

\* C2: on an input without Directive tokens the macro table and the branch
\* stack stay empty, and the output returned is exactly the input without its
\* NewLine and LineComment tokens (same tokens, same spans, same order).
C2_NoDirectiveIdentity ==
    NoDirective(src) =>
        /\ macros = <<>>
        /\ branch_stack = <<>>
        /\ (pc = "done" => vec = Stripped(src))

\* pp returned for a directive-free input of three tokens, one of them
\* stripped
C2_Witness ==
    /\ pc = "done" /\ NoDirective(src)
    /\ Len(src) = 3 /\ Len(vec) = 2

\* C7: for an input of plain tokens, `define lines and conditional chains
\* without nested conditionals (each chain with at most one `else, no
\* `else/`elsif after it), the output is the tokens outside the chains plus,
\* per chain, the tokens of the one branch the reference reading selects:
\* the `ifdef/`ifndef branch, else the first `elsif whose macro is defined,
\* else the `else branch; no later branch once one has been taken.
C7_OneBranch ==
    (pc = "done" /\ Ref(src).ok /\ Ref(src).depth <= 1 /\ Ref(src).errs = {})
        => vec = Ref(src).out

\* pp returned for a chain `ifdef A .. `elsif B .. `else .. `endif with A and
\* B defined: the `ifdef branch and the token after the chain are the output
C7_Witness ==
    /\ pc = "done" /\ Ref(src).ok /\ Ref(src).depth = 1 /\ Ref(src).errs = {}
    /\ DOMAIN macros = {"A", "B"}
    /\ \E i \in DOMAIN src : src[i].kind = "Directive" /\ src[i].name = "elsif"
    /\ \E i \in DOMAIN src : src[i].kind = "Directive" /\ src[i].name = "else"
    /\ src[7].kind = "Directive" /\ src[7].name = "ifdef"
    /\ Len(vec) = 2 /\ vec[1] = src[9]

\* C8 (as claimed): for an input of plain tokens, `define lines and
\* conditionals nested to any depth, no token of a branch that is not selected
\* reaches the output and no `define of such a branch binds a macro: the
\* output and the macro names are those of the reference reading.
C8_DeadBranchesSilent ==
    (pc = "done" /\ Ref(src).ok /\ Ref(src).errs = {})
        => (vec = Ref(src).out /\ DOMAIN macros = Ref(src).macs)

\* C9 (as claimed): in a chain without nested conditionals, every `else or
\* `elsif that comes after an `else of its chain has reported its error when
\* pp returns, whichever branch was taken before.
C9_ElseAfterElseReported ==
    (pc = "done" /\ Ref(src).ok /\ Ref(src).depth <= 1)
        => ElseErrors = Ref(src).errs

UnmatchedMsg(name) ==
    CASE name = "elsif" -> "elsif without matching ifdef or ifndef"
      [] name = "else"  -> "else without matching ifdef or ifndef"
      [] name = "endif" -> "endif without matching ifdef or ifndef"

\* C10: a step that processes `elsif, `else or `endif on an empty branch stack
\* appends exactly the one "without matching" error, leaves the branch stack
\* empty, the macro table and the output unchanged, consumes the directive
\* alone (no token is skipped) and goes on processing.
C10_Unmatched ==
    [][(/\ pc = "run" /\ Raw.some /\ Raw.tok.kind = "Directive"
        /\ Raw.tok.name \in {"elsif", "else", "endif"}
        /\ branch_stack = <<>>)
       => (/\ diag' = Append(diag, Diag("Error", UnmatchedMsg(Raw.tok.name), Raw.tok.span))
           /\ branch_stack' = <<>>
           /\ macros' = macros
           /\ vec' = vec
           /\ stacks' = Raw.stacks
           /\ pc' = "run")]_vars

\* an unmatched `endif was reported and the token after it reached the output
C10_Witness ==
    \E k \in DOMAIN diag :
        /\ diag[k].msg = "endif without matching ifdef or ifndef"
        /\ \E i \in DOMAIN vec : vec[i].span.start > diag[k].span.start

(***************************************************************************)
(* Reference reading of macro expansion, used to state the claim about     *)
(* invocations.  A macro is a name bound to the tokens of its `define      *)
(* line; an invocation stands for these tokens, the invocations among them *)
(* replaced in turn, all placed at the span of the invocation written in   *)
(* the input.  It covers the inputs made of plain tokens, `define lines of *)
(* object-like macros whose bodies hold plain tokens and invocations, and  *)
(* invocations nested at most MaxStack - 1 deep; ok is FALSE otherwise.    *)
(***************************************************************************)
IsInvocation(t) == t.kind = "Directive" /\ ~is_directive(t.name)

RECURSIVE RefExpand(_, _, _, _)
\* the tokens a stored list stands for at the span of an invocation
RefExpand(list, macs, span, fuel) ==
    IF list = <<>> THEN [out |-> <<>>, ok |-> TRUE]
    ELSE LET t == Head(list)
             rest == RefExpand(Tail(list), macs, span, fuel)
             here == IF ~IsInvocation(t)
                     THEN [out |-> <<[t EXCEPT !.span = span]>>, ok |-> TRUE]
                     ELSE IF t.name \notin DOMAIN macs
                     THEN [out |-> <<>>, ok |-> TRUE]
                     ELSE IF fuel = 0
                     THEN [out |-> <<>>, ok |-> FALSE]
                     ELSE RefExpand(macs[t.name], macs, span, fuel - 1)
         IN  [out |-> here.out \o rest.out, ok |-> here.ok /\ rest.ok]

\* a stored list the reference reading covers: no built-in directive
PlainBody(list) ==
    \A i \in DOMAIN list : list[i].kind = "Directive" => IsInvocation(list[i])

RECURSIVE RefMacRun(_, _, _)
RefMacRun(s, i, r) ==
    IF i > Len(s) \/ ~r.ok THEN r
    ELSE LET t == s[i]
             bad == [r EXCEPT !.ok = FALSE]
         IN
         IF IsEol(t) THEN RefMacRun(s, i + 1, r)
         ELSE IF t.kind # "Directive"
         THEN RefMacRun(s, i + 1, [r EXCEPT !.out = Append(@, t)])
         ELSE IF t.name = "define"
         THEN IF /\ IsIdAt(s, i + 1) /\ ~is_directive(s[i + 1].name)
                 /\ i + 2 <= Len(s)
                 /\ ~(s[i + 2].kind = "OpenParen" /\ s[i + 2].span.start = s[i + 1].span.end)
                 /\ PlainBody(SubSeq(s, i + 2, EolFrom(s, i + 2) - 1))
              THEN LET e == EolFrom(s, i + 2)
                       n == s[i + 1].name
                   IN  RefMacRun(s, e + 1,
                         [r EXCEPT !.macs = [m \in DOMAIN r.macs \cup {n} |->
                                               IF m = n THEN SubSeq(s, i + 2, e - 1)
                                               ELSE r.macs[m]]])
              ELSE bad
         ELSE IF IsInvocation(t)
         THEN LET x == RefExpand(<<t>>, r.macs, t.span, MaxStack - 1)
              IN  RefMacRun(s, i + 1, [r EXCEPT !.out = @ \o x.out, !.ok = x.ok])
         ELSE bad

RefMac(s) == RefMacRun(s, 1, [macs |-> <<>>, out |-> <<>>, ok |-> TRUE])

\* a macro invocation is the next raw token and its macro is defined
Invoking ==
    /\ pc = "run" /\ Raw.some /\ IsInvocation(Raw.tok)
    /\ Raw.tok.name \in DOMAIN macros

\* the spans of the macro invocations written in the input
InvocationSpans == {src[i].span : i \in {j \in DOMAIN src : IsInvocation(src[j])}}

\* C11: invoking a defined object-like macro puts the stored tokens, in their
\* stored order and all at the span of the invocation, on top of the raw
\* stacks (so before every token that follows the invocation) and leaves the
\* macro table and the output as they are; every token of an expansion in
\* progress carries the span of an invocation written in the input; and on an
\* input of plain tokens, object-like definitions and invocations the output
\* returned is that of the reference reading of macro expansion.
C11_Expansion ==
    /\ [](\A k \in DOMAIN stacks : k >= 2 =>
            \A i \in DOMAIN stacks[k] : stacks[k][i].span \in InvocationSpans)
    /\ []((pc = "done" /\ RefMac(src).ok) => vec = RefMac(src).out)
    /\ [][Invoking =>
            LET list == macros[Raw.tok.name].list
                top == stacks'[Len(stacks')]
            IN  /\ macros' = macros
                /\ vec' = vec
                /\ Front(stacks') = Raw.stacks
                /\ Len(top) = Len(list)
                /\ \A i \in DOMAIN list :
                      /\ top[i].kind = list[i].kind
                      /\ top[i].name = list[i].name
                      /\ top[i].span = Raw.tok.span]_vars

\* pp returned for `define B x, `define A `B y, `A z: the output is x and y at
\* the span of the invocation of A, then z
C11_Witness ==
    /\ pc = "done" /\ RefMac(src).ok
    /\ DOMAIN macros = {"A", "B"}
    /\ Len(vec) = 3
    /\ \E i \in DOMAIN src :
          /\ src[i].kind = "Directive" /\ src[i].name = "A"
          /\ vec[1].span = src[i].span /\ vec[2].span = src[i].span
          /\ vec[3] = src[i + 1]
    /\ \E i \in DOMAIN macros["A"].list : macros["A"].list[i].name = "B"

\* C12 (as claimed): macro definitions are positional.  The macro table
\* changes only when a `define is processed and never loses a name (`undef
\* and the other unsupported directives included); an invocation of a name
\* that is not bound reports "cannot find macro" and emits nothing; an `ifdef
\* of a name that is not bound, in an emitted region, is not taken; and on an
\* input of plain tokens, `define lines and conditionals no name is bound
\* that the reference reading does not bind, i.e. a `define inside a skipped
\* branch binds nothing.
C12_Positional ==
    /\ [](Ref(src).ok => DOMAIN macros \subseteq Ref(src).macs)
    /\ [][/\ DOMAIN macros \subseteq DOMAIN macros'
          /\ (DOMAIN macros' # DOMAIN macros => IsDir("define"))]_vars
    /\ [][(/\ pc = "run" /\ Raw.some /\ IsInvocation(Raw.tok)
           /\ Raw.tok.name \notin DOMAIN macros)
          => (/\ diag' = Append(diag, Diag("Error", "cannot find macro", Raw.tok.span))
              /\ vec' = vec
              /\ stacks' = Raw.stacks)]_vars
    /\ [][(/\ IsDir("ifdef")
           /\ (branch_stack = <<>> \/ Last(branch_stack)[1])
           /\ expect_id(Raw.stacks).some
           /\ expect_id(Raw.stacks).name \notin DOMAIN macros)
          => branch_stack' = Append(branch_stack, <<FALSE, FALSE>>)]_vars

\* the name a `define being processed reads, and the raw token after it
DefId == expect_id(Raw.stacks)
DefPeek == peek_raw(DefId.stacks)

\* a `define of a usable name is being processed and the token after the name
\* is an opening parenthesis
DefineParen ==
    /\ IsDir("define")
    /\ DefId.some /\ ~is_directive(DefId.name)
    /\ ~DefPeek.panic /\ DefPeek.tok.kind = "OpenParen"

\* C13 (as claimed): a `define whose name is directly followed by an opening
\* parenthesis reports "function-like macros not yet supported", binds no
\* macro, emits nothing and discards the rest of the line (the raw stacks are
\* left just after the next NewLine/LineComment); when the parenthesis is
\* separated from the name the macro is bound, and its body starts with the
\* parenthesis.
C13_FunctionLike ==
    /\ [][(DefineParen /\ DefPeek.tok.span.start = DefId.span.end)
          => (/\ diag' = Append(diag, Diag("Warning", "function-like macros not yet supported",
                                           DefId.span))
              /\ macros' = macros
              /\ vec' = vec
              /\ stacks' = read_until_newline(DefId.stacks).stacks)]_vars
    /\ [][(DefineParen /\ DefPeek.tok.span.start # DefId.span.end)
          => (/\ DefId.name \in DOMAIN macros'
              /\ macros'[DefId.name].list # <<>>
              /\ macros'[DefId.name].list[1] = DefPeek.tok)]_vars

\* the next raw token is read from the input itself, not from an expansion
FromInput == Len(Raw.stacks) = 1

\* the position in the input of a token read from it (see Layout)
InputIndex(tok) == tok.span.start \div 2

\* C14 (as claimed): an `include written in the input after some other raw
\* token reports "include must be on its own line" exactly when that token is
\* no NewLine and no LineComment; either way the "not yet supported" warning
\* follows, and nothing else is reported.
C14_IncludeOwnLine ==
    [][(IsDir("include") /\ FromInput /\ InputIndex(Raw.tok) > 1)
       => diag' = (IF IsEol(src[InputIndex(Raw.tok) - 1]) THEN diag
                   ELSE Append(diag, Diag("Error", "include must be on its own line",
                                          Raw.tok.span)))
                  \o <<NotSupported(Raw.tok.span)>>]_vars

\* the raw tokens still to be read, deque by deque, emptied deques left out
\* (next_raw pops them without looking at them)
Pending(st) == SelectSeq(st, LAMBDA d : d # <<>>)

\* what the rest of a run of pp depends on
Situation == <<Pending(stacks), macros, branch_stack, vec, diag>>

\* C15 (as claimed): pp terminates on every input, every iteration of process
\* making progress: no iteration that goes on to another one leaves pp in the
\* situation it was in (same raw tokens to read, same macro table, branch
\* stack, output and diagnostics), which this deterministic loop would then
\* repeat for ever.
C15_Terminates ==
    [][(pc = "run" /\ pc' = "run") => Situation' # Situation]_vars

(***************************************************************************)
(* Claims about type_param_elim (checked under SpecTPE).                   *)
(***************************************************************************)
Returned == tpc = "ready" /\ passes >= 1

IsTypeParam(it) == it.kind = "Param" /\ it.ty = "Type"

\* the positions of the items of a scope that bear the name n
Named(items, n) == {j \in DOMAIN items : items[j].name = n}

RECURSIVE InstPairs(_, _)
\* the pairs <<items before, items after>> of the DesignInstantiation scopes
\* that can be reached from an item list, through Design items, GenBlock
\* scopes and LoopGenBlock instance scopes; items are matched by name
InstPairs(before, after) ==
    UNION {UNION {UNION {
        (IF after[k].kind = "Design"
         THEN {<<before[j].insts[r].items, after[k].insts[r].items>>} ELSE {})
        \cup InstPairs(before[j].insts[r].items, after[k].insts[r].items) :
            r \in DOMAIN before[j].insts \cap DOMAIN after[k].insts} :
            j \in {i \in Named(before, after[k].name) : before[i].kind = after[k].kind}} :
            k \in {i \in DOMAIN after : after[i].kind \in WrapKinds}}

\* every DesignInstantiation scope of the IR, before and after the pass
AllInstPairs == UNION {InstPairs(hsrc[u], hier[u]) : u \in DOMAIN hsrc \cap DOMAIN hier}

\* the group of an item of a rewritten scope: parameters, ports, typedefs
\* the pass made from the type parameters of the scope, everything else
Group(before, it) ==
    IF it.kind = "Param" THEN 0
    ELSE IF it.kind \in {"DataPort", "InterfacePort"} THEN 1
    ELSE IF it.kind = "Type" /\ \E j \in Named(before, it.name) : IsTypeParam(before[j]) THEN 2
    ELSE 3

Ordered(before, after) ==
    \A i, j \in DOMAIN after :
        i < j => /\ Group(before, after[i]) <= Group(before, after[j])
                 /\ Group(before, after[i]) = Group(before, after[j])
                      => \A a \in Named(before, after[i].name), b \in Named(before, after[j].name) :
                            a < b

\* the items of the first instantiation of the Design that is the first item
\* of the first unit (none if the IR does not start with a Design)
TopInst(units) ==
    IF /\ Len(units) >= 1 /\ Len(units[1]) >= 1
       /\ units[1][1].kind = "Design" /\ Len(units[1][1].insts) >= 1
    THEN units[1][1].insts[1].items ELSE <<>>

\* C3: after type_param_elim, in every DesignInstantiation scope reachable
\* from the units, the parameters come first, then the ports, then the
\* typedefs made by the pass, then the other items, and inside each group the
\* items are in the order they had in the input.
C3_Partitioned ==
    Returned => \A p \in AllInstPairs : Ordered(p[1], p[2])

\* the pass returned on a Design whose instantiation held an other item, a
\* type parameter, a port and a value parameter, in that order
C3_Witness ==
    /\ Returned /\ passes = 1
    /\ TopInst(hsrc) = MkScope(<<"OT", "PT", "DP", "PV">>)
    /\ TopInst(hier) # TopInst(hsrc)
    /\ Len(TopInst(hier)) = 4

\* C4: type_param_elim is idempotent: on an IR the pass has returned, a
\* further application succeeds and leaves every item list as it is.
C4_Idempotent ==
    Returned => /\ ~type_param_elim(hier).panic
                /\ type_param_elim(hier).val = hier

\* the pass has been applied twice to an IR the first application changed
C4_Witness ==
    /\ tpc = "ready" /\ passes = 2 /\ hier # hsrc
    /\ \E i \in DOMAIN TopInst(hier) :
          /\ TopInst(hier)[i].kind = "Type"
          /\ \E j \in Named(TopInst(hsrc), TopInst(hier)[i].name) : IsTypeParam(TopInst(hsrc)[j])
          /\ i < Len(TopInst(hier))

RECURSIVE HasTypeParam(_)
\* a Param of declared type Type stands in the item list or in a scope below it
HasTypeParam(items) ==
    \E k \in DOMAIN items :
        \/ IsTypeParam(items[k])
        \/ \E r \in DOMAIN items[k].insts : HasTypeParam(items[k].insts[r].items)

\* C5 (as claimed): after type_param_elim no Param of declared type Type is
\* left anywhere in the IR: in no DesignInstantiation scope, GenBlock scope,
\* LoopGenBlock instance scope or unit item list.
C5_NoTypeParamLeft ==
    Returned => \A u \in DOMAIN hier : ~HasTypeParam(hier[u])

\* the image visit_instantiation gives an item of a scope
Image(it) ==
    IF IsTypeParam(it) THEN Item("Type", it.name, it.init.ty, NoVal, <<>>) ELSE it

\* same item, whatever the pass did inside the scopes it holds
SameItem(a, b) ==
    /\ a.kind = b.kind /\ a.name = b.name /\ a.ty = b.ty /\ a.init = b.init
    /\ Len(a.insts) = Len(b.insts)

OneToOne(before, after) ==
    /\ Len(after) = Len(before)
    /\ \A j \in DOMAIN before :
          Cardinality({k \in DOMAIN after : SameItem(after[k], Image(before[j]))}) = 1
    /\ \A k \in DOMAIN after :
          \E j \in DOMAIN before : SameItem(after[k], Image(before[j]))

\* C6: visit_instantiation maps the items of a scope one to one: as many items
\* out as in; each type parameter is exactly one Type item of the same name
\* whose ty is the type value of the initializer; each other item occurs
\* exactly once; nothing else is in the output.
C6_OneToOne ==
    Returned => \A p \in AllInstPairs : OneToOne(p[1], p[2])

\* the pass returned on [Param(T: type = int), DataPort, Param(N), Other]:
\* the scope is now [Param(N), DataPort, Type(T = int), Other]
C6_Witness ==
    /\ Returned /\ passes = 1
    /\ TopInst(hsrc) = MkScope(<<"PT2", "DP", "PV", "OT">>)
    /\ TopInst(hier) =
          <<LeafItem("PV", 3), LeafItem("DP", 2),
            Item("Type", 1, "int", NoVal, <<>>), LeafItem("OT", 4)>>

RECURSIVE Defect(_, _)
\* an item list the pass walks holds a defect: an Rc the pass takes by
\* Rc::get_mut (a DesignInstantiation, a GenBlock, an instance of a
\* LoopGenBlock) is shared, or an item list visit_instantiation partitions
\* (inst = TRUE) holds a Param of declared type Type whose initializer is no
\* type value
Defect(items, inst) ==
    \E k \in DOMAIN items :
        \/ inst /\ IsTypeParam(items[k]) /\ items[k].init.tag # "Type"
        \/ /\ items[k].kind \in WrapKinds
           /\ \E r \in DOMAIN items[k].insts :
                 \/ items[k].insts[r].shared
                 \/ Defect(items[k].insts[r].items, items[k].kind = "Design")

C23_BranchDepth ==
    [][/\ pc = "new" => branch_stack = <<>> /\ branch_stack' = <<>>
       /\ IsDir("ifdef") \/ IsDir("ifndef") =>
              /\ Len(branch_stack') = Len(branch_stack) + 1
              /\ Front(branch_stack') = branch_stack
       /\ IsDir("elsif") \/ IsDir("else") =>
              /\ Len(branch_stack') = Len(branch_stack)
              /\ Front(branch_stack') = Front(branch_stack)
       /\ IsDir("endif") /\ branch_stack # <<>> => branch_stack' = Front(branch_stack)
       /\ IsDir("endif") /\ branch_stack = <<>> => branch_stack' = <<>>
       /\ ~(\E d \in {"ifdef", "ifndef", "elsif", "else", "endif"} : IsDir(d)) =>
              branch_stack' = branch_stack]_vars

\* inside a branch not taken a nested conditional is open and its else has
\* been handled: the nested frame lies on top of the frame of the skipped one
C23_Witness ==
    /\ pc = "run" /\ Len(branch_stack) = 2
    /\ branch_stack[1] = <<FALSE, FALSE>>
    /\ branch_stack[2] = <<FALSE, TRUE>>

(***************************************************************************)
(* The elements of a port list, read off its tokens.                       *)
(***************************************************************************)
IsKw(t, ws) == t.kind = "Keyword" /\ t.val \in ws
IsOp(t, o) == t.kind = "Operator" /\ t.val = o
IsId(t) == t.kind = "Id"

\* the element starts with a direction keyword
HasDir(e) == IsKw(e[1], {"input", "output", "inout", "ref"})

DirOf(kw) ==
    CASE kw = "input" -> "Input" [] kw = "output" -> "Output"
      [] kw = "inout" -> "Inout" [] OTHER -> "Ref"

\* the element after its direction keyword
Body(e) == IF HasDir(e) THEN Tail(e) ELSE e

\* the positions of the net kind and data type keywords of the element
TypeWords(e) ==
    {i \in 1..Len(Body(e)) :
        \A j \in 1..i : IsKw(Body(e)[j], {"var", "logic", "bit", "reg", "signed", "unsigned"})}

\* name or name = number
IsAssign(d) ==
    \/ Len(d) = 1 /\ IsId(d[1])
    \/ Len(d) = 3 /\ IsId(d[1]) /\ IsOp(d[2], "Assign") /\ d[3].kind = "IntegerLiteral"

\* .name(expr)
IsExplicit(e) ==
    /\ Len(Body(e)) = 3 /\ IsOp(Body(e)[1], "Dot") /\ IsId(Body(e)[2])
    /\ Body(e)[3].kind = "DelimGroup" /\ Body(e)[3].val = "Paren"

\* interface name, id name, interface.modport name, id.modport name
IsIntf(e) ==
    LET b == Body(e)
    IN  \/ Len(b) = 2 /\ (IsKw(b[1], {"interface"}) \/ IsId(b[1])) /\ IsId(b[2])
        \/ /\ Len(b) = 4 /\ (IsKw(b[1], {"interface"}) \/ IsId(b[1]))
           /\ IsOp(b[2], "Dot") /\ IsId(b[3]) /\ IsId(b[4])

\* the element states a direction, a net kind or a data type
Restates(e) == HasDir(e) \/ TypeWords(e) # {}

\* an explicit port, an interface port, or a data port
WellFormed(e) ==
    /\ e # <<>>
    /\ \/ IsExplicit(e)
       \/ IsIntf(e)
       \/ /\ Body(e) # <<>>
          /\ IsAssign(SubSeq(Body(e), Cardinality(TypeWords(e)) + 1, Len(Body(e))))

RECURSIVE ElemKind(_, _)
\* what element i of the list is: an element that states nothing at all is
\* one more name of the data or interface port before it
ElemKind(elems, i) ==
    IF IsExplicit(elems[i]) THEN "Explicit"
    ELSE IF IsIntf(elems[i]) THEN "Interface"
    ELSE IF Restates(elems[i]) THEN "Data"
    ELSE IF i = 1 THEN "NonAnsi"
    ELSE IF ElemKind(elems, i - 1) = "Interface" THEN "Interface" ELSE "Data"

\* element i starts a PortDecl of its own
Starts(elems, i) ==
    \/ i = 1 \/ IsExplicit(elems[i]) \/ IsIntf(elems[i]) \/ Restates(elems[i])
    \/ ElemKind(elems, i - 1) = "Explicit"

\* the position of the PortDecl that holds element i
DeclOf(elems, i) == Cardinality({j \in 1..i : Starts(elems, j)})

\* parse_port_list was called on an ANSI list of well-formed elements
AnsiPorts ==
    /\ goal = "ports" /\ rpc # "ready"
    /\ psrc # <<>> /\ Head(psrc).kind = "DelimGroup"
    /\ LET elems == Elements(Head(psrc).tokens)
       IN  /\ elems # <<>>
           /\ \A i \in 1..Len(elems) : WellFormed(elems[i])
           /\ ElemKind(elems, 1) # "NonAnsi"

\* C24: in an ANSI port list, a data port or explicit port element that
\* states no direction has the direction of the element before it, and inout
\* when it is the first element or the element before it is an interface
\* port; an element that states a direction has that direction in its
\* PortDecl.  (An element that states nothing at all after an interface port
\* is one more name of that interface port.)
C24_Direction ==
    LET elems == Elements(Head(psrc).tokens)
        n == Len(elems)
        RECURSIVE dir(_)
        dir(i) ==
            IF HasDir(elems[i]) THEN DirOf(elems[i][1].val)
            ELSE IF i = 1 THEN "Inout"
            ELSE IF ElemKind(elems, i - 1) = "Interface" THEN "Inout"
            ELSE dir(i - 1)
        decls == result[1].val[1]
    IN  AnsiPorts
        => /\ rpc = "done" /\ result[1].val # <<>>
           /\ Len(decls) = DeclOf(elems, n)
           /\ \A i \in 1..n :
                 ElemKind(elems, i) \in {"Data", "Explicit"}
                 => /\ decls[DeclOf(elems, i)].tag = ElemKind(elems, i)
                    /\ decls[DeclOf(elems, i)].dir = dir(i)

\* ( interface a, logic b, .c(y) ) has been parsed: the data port after the
\* interface port is inout, and the explicit port takes that direction
C24_Witness ==
    /\ goal = "ports" /\ rpc = "done"
    /\ psrc = Place(<<PortListTokens(<<"interface x", "logic x", ".x(y)">>),
                      TkOp("Semicolon")>>, <<>>)
    /\ Len(result[1].val[1]) = 3
    /\ result[1].val[1][2].tag = "Data" /\ result[1].val[1][2].dir = "Inout"
    /\ result[1].val[1][3].tag = "Explicit" /\ result[1].val[1][3].dir = "Inout"

\* C25: a port element that states neither a net kind nor a data type and
\* whose head is interface, interface.modport, id.id or id id becomes a
\* PortDecl::Interface with that interface and modport and the declared name,
\* at the position of the element among the PortDecls; for each such element
\* that states a direction one Error is reported at the direction keyword,
\* nothing else is reported, and the list is still returned.
C25_InterfacePort ==
    LET elems == Elements(Head(psrc).tokens)
        n == Len(elems)
        decls == result[1].val[1]
        opt(b, k) == IF IsId(b[k]) THEN <<b[k].val>> ELSE <<>>
        intf(e) == IF IsKw(Body(e)[1], {"interface"}) THEN <<>> ELSE <<Body(e)[1].val>>
        modport(e) == IF Len(Body(e)) = 4 THEN <<Body(e)[3].val>> ELSE <<>>
        opt_name(o) == IF o = <<>> THEN <<>> ELSE <<o[1].name>>
        with_dir == {i \in 1..n : IsIntf(elems[i]) /\ HasDir(elems[i])}
        RECURSIVE errors(_)
        errors(i) ==
            IF i > n THEN <<>>
            ELSE (IF i \in with_dir
                  THEN <<Diag("Error",
                              "interface declaration should not be specified together with direction",
                              elems[i][1].span)>>
                  ELSE <<>>) \o errors(i + 1)
    IN  AnsiPorts
        => /\ rpc = "done" /\ result[1].val # <<>>
           /\ Len(decls) = DeclOf(elems, n)
           /\ parser.diag = errors(1)
           /\ \A i \in 1..n :
                 IsIntf(elems[i])
                 => LET d == decls[DeclOf(elems, i)]
                    IN  /\ d.tag = "Interface"
                        /\ opt_name(d.intf) = intf(elems[i])
                        /\ opt_name(d.modport) = modport(elems[i])
                        /\ d.list[1].name.name = Last(elems[i]).val
                        /\ d.list[1].name.span = Last(elems[i]).span

\* ( logic a, input interface b, ref foo.m c ) has been parsed: two errors,
\* and the two interface ports stand after the data port
C25_Witness ==
    /\ goal = "ports" /\ rpc = "done"
    /\ psrc = Place(<<PortListTokens(<<"logic x", "input interface x", "ref foo.m x">>),
                      TkOp("Semicolon")>>, <<>>)
    /\ Len(parser.diag) = 2
    /\ Len(result[1].val[1]) = 3
    /\ result[1].val[1][2].tag = "Interface" /\ result[1].val[1][3].tag = "Interface"

\* C26: parse_data_type(implicit) on a stream whose next token is a signing
\* keyword or a bracket group: with implicit = true it consumes the signing
\* and the packed dimensions (the bracket groups that follow, ranges and
\* unsized dimensions) and returns Implicit(signing, packed_dims), the
\* dimensions in source order, the rest of the stream left, nothing reported;
\* whenever it returns Ok on such a stream the value is an Implicit with the
\* signing stated (Unsigned when none is); with implicit = false it returns
\* None and the parser is exactly as before the call.  On a next token that
\* starts no data type both calls return None and leave the parser as it was.
C26_ImplicitType ==
    LET n == Len(psrc)
        first == IF psrc = <<>> THEN EofTok ELSE psrc[1]
        is_sign(t) == IsKw(t, {"signed", "unsigned"})
        is_group(t) == t.kind = "DelimGroup" /\ t.val = "Bracket"
        is_packed(t) ==
            \/ t.tokens = <<>>
            \/ /\ Len(t.tokens) = 3 /\ t.tokens[1].kind = "IntegerLiteral"
               /\ IsOp(t.tokens[2], "Colon") /\ t.tokens[3].kind = "IntegerLiteral"
        h == IF is_sign(first) THEN 1 ELSE 0
        groups == {i \in h + 1..n : \A j \in h + 1..i : is_group(psrc[j])}
        k == Cardinality(groups)
        signing == IF IsKw(first, {"signed"}) THEN "Signed" ELSE "Unsigned"
        implicit_head == is_sign(first) \/ is_group(first)
        no_type == ~implicit_head /\ ~IsKw(first, {"bit", "logic", "reg"})
        val == result[1].val
        untouched == rpc = "done" /\ val = <<>> /\ parser = NewParser(psrc)
    IN  (goal = "parse_data_type" /\ rpc # "ready")
        => /\ implicit_head /\ ~args[1] => untouched
           /\ no_type => untouched
           /\ implicit_head /\ args[1] /\ rpc = "done"
                => /\ val # <<>> /\ val[1].kind = "Implicit" /\ val[1].sign = signing
                   /\ val[1].span = first.span
           /\ (implicit_head /\ args[1] /\ \A i \in groups : is_packed(psrc[i]))
                => /\ rpc = "done" /\ parser.diag = <<>>
                   /\ Len(val[1].dim) = k
                   /\ \A i \in 1..k :
                         /\ val[1].dim[i].kind =
                               (IF psrc[h + i].tokens = <<>> THEN "Unsized" ELSE "Range")
                         /\ val[1].dim[i].span = psrc[h + i].span
                   /\ parser.lexer = SubSeq(psrc, h + k + 1, n)

\* parse_data_type(true) has returned on: signed [8:0] [] x
C26_Witness ==
    /\ goal = "parse_data_type" /\ rpc = "done" /\ args = <<TRUE>>
    /\ Len(psrc) = 4 /\ IsKw(psrc[1], {"signed"}) /\ IsId(psrc[4])
    /\ result[1].val # <<>> /\ result[1].val[1].kind = "Implicit"
    /\ result[1].val[1].sign = "Signed"
    /\ Len(result[1].val[1].dim) = 2
    /\ result[1].val[1].dim[1].kind = "Range" /\ result[1].val[1].dim[2].kind = "Unsized"
    /\ parser.lexer = <<psrc[4]>>

\* C27 (as claimed): parse_scope keeps the two keyword prefixes apart: after
\* $unit:: the scope is Scope::Unit, after local:: it is Scope::Local; a
\* prefix keyword that follows a scope already built is reported with one
\* Error at the keyword, and the scope returned is the one the stream without
\* that second prefix gives.
C27_UnitAndLocal ==
    LET is_prefix(t) == IsKw(t, {"local", "$unit"})
        is_sep(t) == IsOp(t, "ScopeSep")
        val == result[1].val
        msg(t) == IF t.val = "local" THEN "local scope can only be the outermost scope"
                  ELSE "$unit scope can only be the outermost scope"
        once == call("parse_scope", NewParser(SubSeq(psrc, 1, 2) \o SubSeq(psrc, 5, Len(psrc))), <<>>)
    IN  (goal = "parse_scope" /\ rpc = "done")
        => /\ ( /\ Len(psrc) >= 2 /\ is_prefix(psrc[1]) /\ is_sep(psrc[2])
                /\ Len(psrc) >= 3 => ~is_prefix(psrc[3]) /\ ~IsId(psrc[3]) )
              => val = <<[tag |-> IF psrc[1].val = "$unit" THEN "Unit" ELSE "Local"]>>
           /\ ( /\ Len(psrc) >= 4 /\ is_prefix(psrc[1]) /\ is_sep(psrc[2])
                /\ is_prefix(psrc[3]) /\ is_sep(psrc[4]) )
              => /\ parser.diag = <<Diag("Error", msg(psrc[3]), psrc[3].span)>>
                 /\ val = once.val

\* C28: expect_id, expect_op and expect_delim on a stream whose next token is
\* not the expected one report exactly one Error at that token, leave the
\* stream as it was and return the placeholder with the span of that token:
\* the identifier with the empty name, the token of kind Unknown, the
\* delimited group without tokens (its opening and closing token Unknown);
\* when the expected token is next, it is taken from the stream and returned,
\* and nothing is reported.
C28_Expect ==
    LET first == IF psrc = <<>> THEN EofTok ELSE psrc[1]
        val == result[1].val
        present ==
            CASE goal = "expect_id" -> IsId(first)
              [] goal = "expect_op" -> IsOp(first, args[1])
              [] OTHER -> first.kind = "DelimGroup" /\ first.val = args[1]
        returned ==
            CASE goal = "expect_id" -> val = [name |-> first.val, span |-> first.span]
              [] goal = "expect_op" -> val = first
              [] OTHER -> val.tokens = first.tokens /\ val.open.span = first.span
        placeholder ==
            CASE goal = "expect_id" -> val = [name |-> "", span |-> first.span]
              [] goal = "expect_op" -> val.kind = "Unknown" /\ val.span = first.span
              [] OTHER -> /\ val.tokens = <<>>
                          /\ val.open.kind = "Unknown" /\ val.open.span = first.span
                          /\ val.close.kind = "Unknown" /\ val.close.span = first.span
    IN  (goal \in {"expect_id", "expect_op", "expect_delim"} /\ rpc # "ready")
        => /\ rpc = "done"
           /\ present => /\ parser.diag = <<>>
                          /\ parser.lexer = Tail(psrc)
                          /\ returned
           /\ ~present => /\ Len(parser.diag) = 1
                           /\ parser.diag[1].severity = "Error"
                           /\ parser.diag[1].span = first.span
                           /\ parser.lexer = psrc
                           /\ placeholder

\* expect_delim(Paren) has returned on a stream that starts with a bracket
\* group: one error, the group is still the next token
C28_Witness ==
    /\ goal = "expect_delim" /\ args = <<"Paren">> /\ rpc = "done"
    /\ Len(psrc) = 2 /\ psrc[1].kind = "DelimGroup" /\ psrc[1].val = "Bracket"
    /\ Len(parser.diag) = 1 /\ parser.lexer = psrc
    /\ result[1].val.tokens = <<>>

\* C29 (as claimed): parse_define never aborts the preprocessor: the step of
\* process that handles a define directive always returns to the loop, and
\* when the macro name is the last token of the topmost deque the name is
\* bound to the tokens up to the next newline.
C29_DefineNeverAborts ==
    [][IsDir("define")
       => /\ pc' = "run"
          /\ LET id == expect_id(Raw.stacks)
             IN  (id.some /\ ~is_directive(id.name) /\ Last(id.stacks) = <<>>)
                 => /\ id.name \in DOMAIN macros'
                    /\ macros'[id.name].list = read_until_newline(id.stacks).list]_vars

\* C30: LogicVec::from(width, signed, v) is the two's-complement encoding of
\* v in width bits, for every integer v, negative or not, also of magnitude
\* 2^width and more: the stored value is v mod 2^width, no bit is X or Z,
\* width and signedness are the ones given; LogicVec::new(width, signed, u)
\* stores u mod 2^width likewise.
C30_TwosComplement ==
    rpc = "done" /\ goal \in {"LogicVec::new", "LogicVec::from"}
    => LET width == args[1]
           v == args[3]
           lv == result[1]
       IN  /\ lv.value.value = v % Pow2(width)
           /\ lv.value.value \in 0..Pow2(width) - 1
           /\ lv.value.width = width
           /\ lv.xz.value = 0 /\ lv.xz.width = width
           /\ lv.signed = args[2]

\* LogicVec::from(3, true, -13) has returned: the magnitude does not fit the
\* width, and the value stored is 3
C30_Witness ==
    /\ goal = "LogicVec::from" /\ rpc = "done"
    /\ args = <<3, TRUE, 0 - 13>>
    /\ result[1].value.value = 3

=============================================================================
